---------------------------- MODULE Spec2Model ----------------------------
(***************************************************************************)
(* LiteJESD204B link layer: the TX and RX link state machines, the ILAS    *)
(* generator and checker, the lane aligner, the local multiframe clock     *)
(* and the TX / RX cores that tie the lanes together.                      *)
(*                                                                         *)
(* The design is synchronous hardware on one clock ("jesd").  A step of    *)
(* the model is one clock cycle: the combinational signals are operators   *)
(* of the registers and of the cycle's inputs, and the primed variables    *)
(* are the registers after the clock edge.  The in_* variables record the  *)
(* inputs that were applied during the cycle that ended last.              *)
(***************************************************************************)
EXTENDS Integers, Sequences, FiniteSets, TLC

\* ------------------------------------------------------------------------
\* Configuration of the modelled instance
\* ------------------------------------------------------------------------

\* Frames per multiframe (JESD204BSettings field K).
K == 5

\* Width of a link word in bits (JESD204BSettings.LINK_DW).
LINK_DW == 32

\* The keyword arguments the settings object is built from:
\* 4 converters of one 16-bit sample per frame on 2 lanes, F = 4.
jesd_kwargs ==
    << <<"L", 2>>, <<"M", 4>>, <<"N", 16>>, <<"NP", 16>>, <<"S", 1>>,
       <<"F", 4>>, <<"K", K>>, <<"DID", 90>>, <<"BID", 5>> >>

\* ------------------------------------------------------------------------
\* Arithmetic helpers (bit operations on naturals)
\* ------------------------------------------------------------------------

RECURSIVE Pow2(_)
Pow2(n) == IF n = 0 THEN 1 ELSE 2 * Pow2(n - 1)

\* migen bits_for(n) for n >= 0: 1 for 0, else the position of the top bit.
RECURSIVE bits_for(_)
bits_for(n) == IF n < 2 THEN 1 ELSE 1 + bits_for(n \div 2)

\* Bits offset .. offset+width-1 of v.
BitField(v, offset, width) == (v \div Pow2(offset)) % Pow2(width)

RECURSIVE SumSeq(_)
SumSeq(s) == IF s = << >> THEN 0 ELSE Head(s) + SumSeq(Tail(s))

\* ------------------------------------------------------------------------
\* common.py: control characters and the settings register
\* ------------------------------------------------------------------------

control_characters ==
    [R |-> 28, A |-> 124, Q |-> 156, K |-> 188, F |-> 252]

\* name :> <<octet index, bit offset, field width, isZeroBased>>
FIELDS ==
    [ADJCNT |-> <<1, 4, 4, FALSE>>, ADJDIR    |-> <<2, 6, 1, FALSE>>,
     BID    |-> <<1, 0, 4, FALSE>>, CF        |-> <<10, 0, 5, FALSE>>,
     CS     |-> <<7, 6, 2, FALSE>>, DID       |-> <<0, 0, 8, FALSE>>,
     F      |-> <<4, 0, 8, TRUE>>,  HD        |-> <<10, 7, 1, FALSE>>,
     JESDV  |-> <<9, 5, 3, FALSE>>, K         |-> <<5, 0, 8, TRUE>>,
     L      |-> <<3, 0, 5, TRUE>>,  LID       |-> <<2, 0, 5, FALSE>>,
     M      |-> <<6, 0, 8, TRUE>>,  N         |-> <<7, 0, 5, TRUE>>,
     NP     |-> <<8, 0, 5, TRUE>>,  PHADJ     |-> <<2, 5, 1, FALSE>>,
     S      |-> <<9, 0, 5, TRUE>>,  SCR       |-> <<3, 7, 1, FALSE>>,
     SUBCLASSV |-> <<8, 5, 3, FALSE>>, RES1   |-> <<11, 0, 8, FALSE>>,
     RES2   |-> <<12, 0, 8, FALSE>>, FCHK     |-> <<13, 0, 8, FALSE>>]

\* The order in which calc_fchk walks the FIELDS dictionary.
FieldOrder ==
    <<"ADJCNT", "ADJDIR", "BID", "CF", "CS", "DID", "F", "HD", "JESDV", "K",
      "L", "LID", "M", "N", "NP", "PHADJ", "S", "SCR", "SUBCLASSV", "RES1",
      "RES2", "FCHK">>

LEN == 14

\* The octets are a sequence indexed 1..LEN; octet index i of the code is
\* element i+1.  set_field on a value that fits its field.
set_field(octets, name, val) ==
    LET index  == FIELDS[name][1]
        offset == FIELDS[name][2]
        width  == FIELDS[name][3]
        v      == IF FIELDS[name][4] THEN val - 1 ELSE val
        old    == octets[index + 1]
        kept   == old - BitField(old, offset, width) * Pow2(offset)
    IN  [octets EXCEPT ![index + 1] = kept + v * Pow2(offset)]

get_field(octets, name) ==
    LET index  == FIELDS[name][1]
        offset == FIELDS[name][2]
        width  == FIELDS[name][3]
        val    == BitField(octets[index + 1], offset, width)
    IN  IF FIELDS[name][4] THEN val + 1 ELSE val

RECURSIVE set_fields(_, _)
set_fields(octets, kv) ==
    IF kv = << >> THEN octets
    ELSE set_fields(set_field(octets, Head(kv)[1], Head(kv)[2]), Tail(kv))

\* JESD204BSettings.__init__ with FCHK_OVER_OCTETS = False.
settings_init ==
    set_fields([i \in 1..LEN |-> 0],
               <<  <<"SCR", 1>>, <<"JESDV", 1>>, <<"SUBCLASSV", 1>> >>
               \o jesd_kwargs)

\* calc_fchk, sum over the decoded fields.
calc_fchk(octets) ==
    LET vals == [i \in 1..Len(FieldOrder) |->
                    IF FieldOrder[i] = "FCHK" THEN 0
                    ELSE get_field(octets, FieldOrder[i])]
    IN  set_field(octets, "FCHK", SumSeq(vals) % 256)

\* Octets per frame and frames per clock of the modelled settings.
F == get_field(settings_init, "F")
FR_CLK == (LINK_DW \div 8) \div F

\* The settings octets lane n's TX link builds its ILAS from
\* (jesd_settings.LID = n; jesd_settings.calc_fchk()).
lane_settings(n) == calc_fchk(set_field(settings_init, "LID", n))

\* ------------------------------------------------------------------------
\* link.py: ILAS table
\* ------------------------------------------------------------------------

\* An octet of the sequence: its value and whether it is a Control().
Control(value) == [value |-> value, ctrl |-> 1]
Data(value) == [value |-> value, ctrl |-> 0]

octets_per_multiframe == F * K

\* multiframe i (0..3) of the sequence, positions 1..octets_per_multiframe.
ilas_multiframe(i, settings_octets, with_counter) ==
    LET opm  == octets_per_multiframe
        base == [j \in 1..opm |->
                    IF j = 1 THEN Control(control_characters.R)
                    ELSE IF j = opm THEN Control(control_characters.A)
                    ELSE IF with_counter
                         THEN Data((i * opm + (j - 1)) % 256)
                         ELSE Data(0)]
        withQ == [base EXCEPT ![2] = Control(control_characters.Q)]
        cfg   == [j \in 1..LEN |-> Data(settings_octets[j])]
    IN  IF i # 1 THEN base
        \* multiframe[2:2+len(octets)] = octets (a slice assignment)
        ELSE SubSeq(withQ, 1, 2) \o cfg \o SubSeq(withQ, 3 + LEN, opm)

ilas_octets(settings_octets, with_counter) ==
    ilas_multiframe(0, settings_octets, with_counter)
    \o ilas_multiframe(1, settings_octets, with_counter)
    \o ilas_multiframe(2, settings_octets, with_counter)
    \o ilas_multiframe(3, settings_octets, with_counter)

octets_per_clock == LINK_DW \div 8

\* A link word: octet j (bits 8j .. 8j+7) is data[j+1], its flag ctrl[j+1].
Word(d, c) == [data |-> d, ctrl |-> c]

\* The lookup table: word i (0-based) is element i+1.
ILAS(settings_octets, with_counter) ==
    LET o == ilas_octets(settings_octets, with_counter)
    IN  [i \in 1..(Len(o) \div octets_per_clock) |->
            Word([j \in 1..octets_per_clock |->
                     o[(i - 1) * octets_per_clock + j].value],
                 [j \in 1..octets_per_clock |->
                     o[(i - 1) * octets_per_clock + j].ctrl])]


\* With the settings of one lane, as the generator of lane n holds it.
ILASGeneratorTable(n) == ILAS(lane_settings(n), TRUE)

\* Number of words of the table (len(self.data_words)), as ILAS.__init__
\* asserts it.
ilas_len == (F * K * 4) \div octets_per_clock

\* ILASGenerator / ILASChecker index register:
\* If(counter != len(self.data_words), counter.eq(counter + 1)).
ilas_counter_next(counter) ==
    IF counter # ilas_len THEN counter + 1 ELSE counter

\* Mutant of ilas_source_last: last raised one cycle late, together with
\* done.
ilas_source_last_late(counter) == counter = ilas_len

\* Mutant of ilas_done: done raised one cycle early, together with last.
ilas_done_early(counter) == counter = ilas_len - 1

\* ILASGenerator: source.last and done.
ilas_source_last(counter) == counter = ilas_len - 1
ilas_done(counter) == counter = ilas_len

\* ------------------------------------------------------------------------
\* core.py: LMFC
\* ------------------------------------------------------------------------

\* jesd clock cycles per multiframe.
lmfc_cycles == K \div FR_CLK

\* Width of the count register, Signal(max=lmfc_cycles).
lmfc_count_bits == bits_for(lmfc_cycles - 1)

\* load = load % lmfc_cycles, for the TX core (1 + 4) and the RX core -(1 + 4).
lmfc_load_tx == (1 + 4) % lmfc_cycles
lmfc_load_rx == (0 - (1 + 4)) % lmfc_cycles

\* Registers of an LMFC as instantiated in a core: jref is the core's
\* registered copy (sync.jesd += lmfc.jref.eq(self.jref)), jref_r and jref_d
\* are _jref and _jref_d.
lmfc_reset == [jref |-> FALSE, jref_r |-> FALSE, jref_d |-> FALSE, count |-> 0]

lmfc_zero(l) == l.count = 0
lmfc_is_load(l) == l.jref_r /\ ~l.jref_d

\* count.eq(count + 1) on a register of lmfc_count_bits bits.
lmfc_count_inc(count) == (count + 1) % Pow2(lmfc_count_bits)

lmfc_step(l, jref_in, load) ==
    [jref   |-> jref_in,
     jref_r |-> l.jref,
     jref_d |-> l.jref_r,
     count  |-> IF lmfc_is_load(l) THEN load ELSE lmfc_count_inc(l.count)]

\* ------------------------------------------------------------------------
\* migen.genlib.misc.WaitTimer(4), as instantiated for jsync_timer
\* ------------------------------------------------------------------------

jsync_timer_t == 4

wait_timer_done(count) == count = 0

\* Mutant of wait_timer_next: the count is not reloaded when wait drops.
wait_timer_next_no_reload(count, wait) ==
    IF wait
    THEN (IF ~wait_timer_done(count) THEN count - 1 ELSE count)
    ELSE count

wait_timer_next(count, wait) ==
    IF wait
    THEN (IF ~wait_timer_done(count) THEN count - 1 ELSE count)
    ELSE jsync_timer_t

\* ------------------------------------------------------------------------
\* link.py: Scrambler, Descrambler
\* ------------------------------------------------------------------------

\* A signal of n bits is a function 0..n-1 -> {0, 1}, bit 0 the least
\* significant.
ToBits(v, n) == [i \in 0..(n - 1) |-> (v \div Pow2(i)) % 2]

\* The data of a link word (octets_per_clock octets, octet j in bits
\* 8(j-1) .. 8j-1) as a signal, and back.
octets_bits(d) ==
    [i \in 0..(LINK_DW - 1) |-> (d[(i \div 8) + 1] \div Pow2(i % 8)) % 2]

RECURSIVE bits_value(_, _, _)
bits_value(b, lo, n) ==
    IF n = 0 THEN 0 ELSE b[lo] + 2 * bits_value(b, lo + 1, n - 1)

bits_octets(b) == [j \in 1..(LINK_DW \div 8) |-> bits_value(b, 8 * (j - 1), 8)]

\* swizzle: the octets in reverse order.
swizzle(s) ==
    [k \in 0..(LINK_DW - 1) |-> s[LINK_DW - 8 * ((k \div 8) + 1) + (k % 8)]]

\* Scrambler(seed=0x7f80), the 15-bit state register's reset value.
scrambler_seed == 32640
scrambler_reset_state == ToBits(scrambler_seed, 15)

\* Scrambler: full = Cat(feedback, state),
\* feedback = full[15:15+dw] ^ full[14:14+dw] ^ swizzle(sink.data); bit i
\* of feedback, sw being the swizzled sink.
RECURSIVE scrambler_feedback_bit(_, _, _)
scrambler_feedback_bit(state, sw, i) ==
    LET hi == IF 15 + i >= LINK_DW THEN state[15 + i - LINK_DW]
              ELSE scrambler_feedback_bit(state, sw, 15 + i)
        lo == IF 14 + i >= LINK_DW THEN state[14 + i - LINK_DW]
              ELSE scrambler_feedback_bit(state, sw, 14 + i)
    IN  (hi + lo + sw[i]) % 2

scrambler_feedback(state, data) ==
    LET sw == swizzle(data)
    IN  [i \in 0..(LINK_DW - 1) |-> scrambler_feedback_bit(state, sw, i)]

\* Descrambler: full = Cat(swizzle(sink.data), state),
\* feedback = full[15:15+dw] ^ full[14:14+dw] ^ full[0:32].
descrambler_full(state, data) ==
    LET sw == swizzle(data)
    IN  [k \in 0..(LINK_DW + 14) |->
            IF k >= LINK_DW THEN state[k - LINK_DW] ELSE sw[k]]

\* Mutant of descrambler_feedback: the tap full[14 + i] is left out.
descrambler_feedback_one_tap(state, data) ==
    LET full == descrambler_full(state, data)
    IN  [i \in 0..(LINK_DW - 1) |-> (full[15 + i] + full[i]) % 2]

descrambler_feedback(state, data) ==
    LET full == descrambler_full(state, data)
    IN  [i \in 0..(LINK_DW - 1) |->
            (full[15 + i] + full[14 + i] + full[i]) % 2]

\* Registers of a Scrambler or Descrambler: state, valid and the
\* reset_less source.data.
scrambler_init(source) ==
    [state |-> scrambler_reset_state, valid |-> FALSE, source |-> source]

\* Mutant of scrambler_step: the reset clears source.data too.
scrambler_step_flush(s, data, reset) ==
    LET feedback == scrambler_feedback(s.state, data)
    IN  [state  |-> IF reset THEN scrambler_reset_state
                    ELSE [i \in 0..14 |-> feedback[i]],
         valid  |-> ~reset,
         source |-> IF reset THEN [i \in 0..(LINK_DW - 1) |-> 0]
                    ELSE swizzle(feedback)]

\* One clock edge of a Scrambler (ResetInserter): state.eq(full) keeps the
\* low 15 bits of full, which are those of feedback; source.data is
\* reset_less and is written in a reset cycle too.
scrambler_step(s, data, reset) ==
    LET feedback == scrambler_feedback(s.state, data)
    IN  [state  |-> IF reset THEN scrambler_reset_state
                    ELSE [i \in 0..14 |-> feedback[i]],
         valid  |-> ~reset,
         source |-> swizzle(feedback)]

\* One clock edge of a Descrambler: the low 15 bits of full are those of
\* the swizzled sink.
descrambler_step(s, data, reset) ==
    LET full == descrambler_full(s.state, data)
    IN  [state  |-> IF reset THEN scrambler_reset_state
                    ELSE [i \in 0..14 |-> full[i]],
         valid  |-> ~reset,
         source |-> swizzle(descrambler_feedback(s.state, data))]

\* ------------------------------------------------------------------------
\* link.py: Framer position counter
\* ------------------------------------------------------------------------

frames_per_clock == (LINK_DW \div 8) \div F
clocks_per_multiframe == K \div frames_per_clock

framer_multiframe_last(counter) == counter = clocks_per_multiframe - 1

framer_counter_next(counter) ==
    IF framer_multiframe_last(counter) THEN 0 ELSE (counter + 1) % 256

\* ------------------------------------------------------------------------
\* link.py: LiteJESD204BLinkTX
\* ------------------------------------------------------------------------

TXStates == {"SEND-CGS", "SEND-ILAS", "SEND-DATA"}

\* Registers of one TX link after reset.
link_tx_reset ==
    [state          |-> "SEND-CGS",
     ilas_counter   |-> 0,
     jsync_timer    |-> jsync_timer_t,
     scrambler_valid |-> FALSE,
     framer_counter |-> 0]

\* Mutant of link_tx_next_state: SEND-CGS is left on jsync alone, without
\* waiting for the LMFC.
link_tx_next_state_no_lmfc(state, zero, jsync, last, timer_done) ==
    CASE state = "SEND-CGS"  ->
            IF jsync THEN "SEND-ILAS" ELSE "SEND-CGS"
      [] state = "SEND-ILAS" ->
            IF last THEN "SEND-DATA" ELSE "SEND-ILAS"
      [] state = "SEND-DATA" ->
            IF timer_done THEN "SEND-CGS" ELSE "SEND-DATA"

\* The FSM's next state (the If(...) NextState(...) of each fsm.act).
link_tx_next_state(state, zero, jsync, last, timer_done) ==
    CASE state = "SEND-CGS"  ->
            IF zero /\ jsync THEN "SEND-ILAS" ELSE "SEND-CGS"
      [] state = "SEND-ILAS" ->
            IF last THEN "SEND-DATA" ELSE "SEND-ILAS"
      [] state = "SEND-DATA" ->
            IF timer_done THEN "SEND-CGS" ELSE "SEND-DATA"

\* Mutant of link_tx_scrambler_reset: the FSM leaves the scrambler alone.
link_tx_scrambler_reset_never(state) == FALSE

\* Mutant of link_tx_ready: ready driven in SEND-ILAS as well.
link_tx_ready_early(state) == state \in {"SEND-ILAS", "SEND-DATA"}

\* Combinational outputs and resets the FSM drives in each state.
link_tx_ready(state) == state = "SEND-DATA"
link_tx_ilas_reset(state) == state = "SEND-CGS"
link_tx_scrambler_reset(state) == state = "SEND-CGS"

\* Mutant of link_tx_framer_reset: the FSM leaves the framer alone.
link_tx_framer_reset_datapath(state, scrambler_valid) == ~scrambler_valid

\* The datapath drives framer.reset with ~scrambler.valid; the FSM, which
\* comes later in the statement order, overrides it with 1 in SEND-CGS and
\* SEND-ILAS.
link_tx_framer_reset(state, scrambler_valid) ==
    IF state \in {"SEND-CGS", "SEND-ILAS"} THEN TRUE ELSE ~scrambler_valid

\* One clock edge of a TX link (ResetInserter: reset wins over every
\* synchronous assignment).
link_tx_step(l, jsync, zero, reset) ==
    IF reset THEN link_tx_reset
    ELSE
    [state |->
        link_tx_next_state(l.state, zero, jsync,
                           ilas_source_last(l.ilas_counter),
                           wait_timer_done(l.jsync_timer)),
     ilas_counter |->
        IF link_tx_ilas_reset(l.state) THEN 0
        ELSE ilas_counter_next(l.ilas_counter),
     jsync_timer |-> wait_timer_next(l.jsync_timer, ~jsync),
     scrambler_valid |-> ~link_tx_scrambler_reset(l.state),
     framer_counter |->
        IF link_tx_framer_reset(l.state, l.scrambler_valid) THEN 0
        ELSE framer_counter_next(l.framer_counter)]

\* ------------------------------------------------------------------------
\* core.py: LiteJESD204BCoreTX
\* ------------------------------------------------------------------------

\* The lanes of the core, one link per lane.
Lanes == 0 .. (get_field(settings_init, "L") - 1)

\* self.ready.eq(reduce(and_, [link.ready for link in links]))
core_tx_ready(links) == \A n \in Lanes : link_tx_ready(links[n].state)


\* ------------------------------------------------------------------------
\* link.py: CGS, ILAS start and ILAS checkers, Aligner
\* ------------------------------------------------------------------------

Octets == 1 .. octets_per_clock

\* CGSGenerator: K with its control flag on every octet.
cgs_word ==
    Word([j \in Octets |-> control_characters.K], [j \in Octets |-> 1])

\* Mutant of cgs_checker_valid: the control flags are not looked at.
cgs_checker_valid_data_only(w) ==
    \A j \in Octets : w.data[j] = control_characters.K

\* CGSChecker.valid
cgs_checker_valid(w) ==
    \A j \in Octets : w.data[j] = control_characters.K /\ w.ctrl[j] = 1

\* Mutant of ilas_start_valid: the other control flags are not looked at.
ilas_start_valid_first_only(w) ==
    ~(w.ctrl[1] = 0 \/ w.data[1] # control_characters.R)

\* ILASStartChecker.valid
ilas_start_valid(w) ==
    /\ ~(w.ctrl[1] = 0 \/ w.data[1] # control_characters.R)
    /\ ~(w.ctrl[2] = 1 \/ w.ctrl[3] = 1 \/ w.ctrl[4] = 1)

\* The table the checker of an RX link compares with.  The RX link does not
\* set LID: every lane's checker holds the settings object as it stands
\* (here LID as constructed, checksum computed).  ILASChecker hands
\* (jesd_settings, with_counter) to ILAS.__init__, whose first parameter is
\* data_width, so the call as written raises before any table exists; the
\* table here is the one ILAS.__init__(data_width, jesd_settings,
\* with_counter) builds.
ILASCheckerTable == ILAS(calc_fchk(settings_init), TRUE)

\* ILASChecker.valid while the index is inside the table, lut being the
\* contents of data_lut / ctrl_lut.  (At index ilas_len the lookup reads
\* past the table; done is then asserted and the FSM does not look at
\* valid.)
ilas_checker_valid(lut, w, counter) ==
    /\ counter < ilas_len
    /\ w.data = lut[counter + 1].data
    /\ w.ctrl = lut[counter + 1].ctrl

\* Aligner: source is the 4 octets from slot `alignment` of
\* Cat(last, sink).
aligner_source(alignment, last, sink) ==
    LET d == last.data \o sink.data
        c == last.ctrl \o sink.ctrl
    IN  Word([j \in Octets |-> d[alignment + j]],
             [j \in Octets |-> c[alignment + j]])

\* Mutant of aligner_alignment_next: of several R in one word the lowest
\* slot is latched.
aligner_alignment_next_first(alignment, sink) ==
    LET hits == {j \in Octets :
                    sink.ctrl[j] = 1 /\ sink.data[j] = control_characters.R}
    IN  IF hits = {} THEN alignment
        ELSE (CHOOSE j \in hits : \A k \in hits : j <= k) - 1

\* Aligner: the alignment register; of several R in one word the highest
\* slot is latched (the last assignment wins).
aligner_alignment_next(alignment, sink) ==
    LET hits == {j \in Octets :
                    sink.ctrl[j] = 1 /\ sink.data[j] = control_characters.R}
    IN  IF hits = {} THEN alignment
        ELSE (CHOOSE j \in hits : \A k \in hits : k <= j) - 1

\* ------------------------------------------------------------------------
\* link.py: LiteJESD204BLinkRX
\* ------------------------------------------------------------------------

RXStates == {"RECEIVE-CGS", "ASSERT-SYNC", "RECEIVE-ILAS", "RECEIVE-DATA"}

zero_word == Word([j \in Octets |-> 0], [j \in Octets |-> 0])

\* Registers of one RX link after reset; last_data / last_ctrl are
\* reset_less and keep following the sink.
link_rx_reset(sink) ==
    [state        |-> "RECEIVE-CGS",
     ilas_counter |-> 0,
     alignment    |-> 0,
     last         |-> sink]

\* Mutant of link_rx_next_state: RECEIVE-CGS is left on a valid CGS word
\* without waiting for the LMFC.
link_rx_next_state_no_lmfc(state, zero, cgs_valid, start_valid, done, valid, check) ==
    CASE state = "RECEIVE-CGS"  ->
            IF cgs_valid THEN "ASSERT-SYNC" ELSE "RECEIVE-CGS"
      [] state = "ASSERT-SYNC"  ->
            IF start_valid THEN "RECEIVE-ILAS" ELSE "ASSERT-SYNC"
      [] state = "RECEIVE-ILAS" ->
            IF done THEN "RECEIVE-DATA"
            ELSE IF check /\ ~valid THEN "RECEIVE-CGS"
            ELSE "RECEIVE-ILAS"
      [] state = "RECEIVE-DATA" ->
            IF cgs_valid THEN "RECEIVE-CGS" ELSE "RECEIVE-DATA"

\* Mutant of link_rx_next_state: the strict check is applied whatever
\* ilas_check says.
link_rx_next_state_always_strict(state, zero, cgs_valid, start_valid, done, valid, check) ==
    CASE state = "RECEIVE-CGS"  ->
            IF zero /\ cgs_valid THEN "ASSERT-SYNC" ELSE "RECEIVE-CGS"
      [] state = "ASSERT-SYNC"  ->
            IF start_valid THEN "RECEIVE-ILAS" ELSE "ASSERT-SYNC"
      [] state = "RECEIVE-ILAS" ->
            IF done THEN "RECEIVE-DATA"
            ELSE IF ~valid THEN "RECEIVE-CGS"
            ELSE "RECEIVE-ILAS"
      [] state = "RECEIVE-DATA" ->
            IF cgs_valid THEN "RECEIVE-CGS" ELSE "RECEIVE-DATA"

\* The FSM's next state.
link_rx_next_state(state, zero, cgs_valid, start_valid, done, valid, check) ==
    CASE state = "RECEIVE-CGS"  ->
            IF zero /\ cgs_valid THEN "ASSERT-SYNC" ELSE "RECEIVE-CGS"
      [] state = "ASSERT-SYNC"  ->
            IF start_valid THEN "RECEIVE-ILAS" ELSE "ASSERT-SYNC"
      [] state = "RECEIVE-ILAS" ->
            IF done THEN "RECEIVE-DATA"
            ELSE IF check /\ ~valid THEN "RECEIVE-CGS"
            ELSE "RECEIVE-ILAS"
      [] state = "RECEIVE-DATA" ->
            IF cgs_valid THEN "RECEIVE-CGS" ELSE "RECEIVE-DATA"

\* Combinational outputs of the FSM.
link_rx_jsync(state) ==
    state \in {"ASSERT-SYNC", "RECEIVE-ILAS", "RECEIVE-DATA"}
link_rx_ready(state) == state = "RECEIVE-DATA"
link_rx_align(state) == state = "RECEIVE-CGS"

\* Mutant of link_rx_ilas_reset: the reset is not released in the cycle
\* the start checker is valid.
link_rx_ilas_reset_no_release(state, start_valid) ==
    state \in {"RECEIVE-CGS", "ASSERT-SYNC"}

\* ilas.reset: 1 in RECEIVE-CGS, and in ASSERT-SYNC until the start checker
\* is valid.
link_rx_ilas_reset(state, start_valid) ==
    \/ state = "RECEIVE-CGS"
    \/ state = "ASSERT-SYNC" /\ ~start_valid

\* One clock edge of an RX link.
link_rx_step(l, lut, sink, zero, reset, check) ==
    LET aligned == aligner_source(l.alignment, l.last, sink)
        start   == ilas_start_valid(aligned)
    IN  IF reset THEN link_rx_reset(sink)
        ELSE
        [state |->
            link_rx_next_state(l.state, zero, cgs_checker_valid(aligned),
                               start, ilas_done(l.ilas_counter),
                               ilas_checker_valid(lut, aligned,
                                                  l.ilas_counter),
                               check),
         ilas_counter |->
            IF link_rx_ilas_reset(l.state, start) THEN 0
            ELSE ilas_counter_next(l.ilas_counter),
         alignment |-> aligner_alignment_next(l.alignment, sink),
         last |-> sink]

\* ------------------------------------------------------------------------
\* core.py: LiteJESD204BCoreRX
\* ------------------------------------------------------------------------

core_rx_reset == [jsync |-> FALSE, ready |-> FALSE]

\* Mutant of core_rx_step: ready follows the lanes in every cycle.
core_rx_step_ungated(c, links, zero) ==
    [jsync |-> \A n \in DOMAIN links : link_rx_jsync(links[n].state),
     ready |-> \A n \in DOMAIN links : link_rx_ready(links[n].state)]

\* Mutant of core_rx_step: jsync is sampled on LMFC zero only, like ready.
core_rx_step_gated_jsync(c, links, zero) ==
    [jsync |-> IF zero
               THEN \A n \in DOMAIN links : link_rx_jsync(links[n].state)
               ELSE c.jsync,
     ready |-> IF zero
               THEN \A n \in DOMAIN links : link_rx_ready(links[n].state)
               ELSE c.ready]

\* sync.jesd: jsync is registered every cycle, ready on LMFC zero only.
\* (The core builds its LMFC and links with a leading 32 that their
\* constructors do not take; the registers below do not depend on it.)
core_rx_step(c, links, zero) ==
    [jsync |-> \A n \in DOMAIN links : link_rx_jsync(links[n].state),
     ready |-> IF zero
               THEN \A n \in DOMAIN links : link_rx_ready(links[n].state)
               ELSE c.ready]

\* ------------------------------------------------------------------------
\* State
\* ------------------------------------------------------------------------

VARIABLES
    lmfc,       \* registers of the core's LMFC
    tx,         \* tx[n]: registers of TX link n
    rx,         \* rx[n]: registers of RX link n
    rx_core,    \* the RX core's registered jsync and ready outputs
    ilas_check, \* the RX links' ilas_check construction parameter
    ilas_lut,   \* contents of the ILAS lookup memories: gen of the TX
                \*   generator, chk of the RX checkers
    in_jsync,   \* inputs of the last cycle: the TX core's jsync,
    in_jref,    \*   the core's jref,
    in_tx_reset,   \*   the TX links' reset (~enable),
    in_rx_reset,   \*   the RX links' reset (~enable),
    in_sink,    \*   in_sink[n]: the word on RX link n's sink
    obs_tx,     \* history of the TX inputs, for the timing properties
    obs_rx,     \* history of the RX lanes, for the timing properties
    obs_core,   \* history of the RX core, for the timing properties
    dp,         \* registers of the datapath: scr of a Scrambler, dscr of a
                \*   Descrambler
    in_data,    \* the word on the Scrambler's sink
    obs_dp,     \* history of the datapath
    obs_lmfc    \* history of a stand-alone LMFC's inputs

vars == <<lmfc, tx, rx, rx_core, ilas_check, ilas_lut, in_jsync, in_jref,
          in_tx_reset, in_rx_reset, in_sink, obs_tx, obs_rx, obs_core,
          dp, in_data, obs_dp, obs_lmfc>>

dp_vars == <<dp, in_data, obs_dp>>

tx_vars == <<lmfc, tx, in_jsync, in_jref, in_tx_reset, obs_tx>>
rx_vars == <<rx, rx_core, ilas_check, ilas_lut, in_rx_reset, in_sink, obs_rx,
             obs_core>>

\* ------------------------------------------------------------------------
\* The TX core on its own: jsync, jref and enable are free inputs
\* ------------------------------------------------------------------------

\* One LMFC counter period, the distance between two zero pulses of an
\* undisturbed LMFC.
lmfc_period == Pow2(lmfc_count_bits)

\* Where the run counters of the observers saturate.
MaxRun == lmfc_period + 4 * lmfc_cycles + 1

Min(a, b) == IF a < b THEN a ELSE b

\* jsync_run: the number of cycles since jsync has been held asserted,
\* counted from a cycle in which the links were in SEND-CGS, with no link
\* reset and no LMFC reload since (0: no such run is in progress).
\* low_run: the number of consecutive cycles, up to the last one, in which
\* jsync was deasserted (saturating at the timer's length).
\* prev_state: the links' states one cycle ago.
obs_tx_next(o, links, l, jsync, reset) ==
    [jsync_run |->
        IF reset \/ ~jsync \/ lmfc_is_load(l) THEN 0
        ELSE IF o.jsync_run > 0 THEN Min(o.jsync_run + 1, MaxRun)
        ELSE IF \A n \in Lanes : links[n].state = "SEND-CGS" THEN 1
        ELSE 0,
     low_run |->
        IF reset \/ jsync THEN 0
        ELSE Min(o.low_run + 1, jsync_timer_t),
     prev_state |-> [n \in Lanes |-> links[n].state]]

InitIdleDp ==
    /\ dp = << >>
    /\ in_data = << >>
    /\ obs_dp = << >>

InitIdleRX ==
    /\ rx = << >>
    /\ rx_core = << >>
    /\ ilas_check = FALSE
    /\ ilas_lut = << >>
    /\ in_rx_reset = FALSE
    /\ in_sink = << >>
    /\ obs_rx = << >>
    /\ obs_core = << >>

InitTX ==
    /\ lmfc = lmfc_reset
    /\ tx = [n \in Lanes |-> link_tx_reset]
    /\ in_jsync = FALSE
    /\ in_jref = FALSE
    /\ in_tx_reset = FALSE
    /\ obs_tx = [jsync_run |-> 0, low_run |-> 0,
                 prev_state |-> [n \in Lanes |-> "SEND-CGS"]]
    /\ InitIdleRX
    /\ InitIdleDp
    /\ obs_lmfc = << >>

\* One cycle of the TX core: link.reset = ~enable, link.jsync = jsync,
\* link.lmfc_zero = lmfc.zero for every lane.
TickTX(jsync, jref, reset) ==
    /\ tx' = [n \in Lanes |->
                link_tx_step(tx[n], jsync, lmfc_zero(lmfc), reset)]
    /\ lmfc' = lmfc_step(lmfc, jref, lmfc_load_tx)
    /\ in_jsync' = jsync
    /\ in_jref' = jref
    /\ in_tx_reset' = reset
    /\ obs_tx' = obs_tx_next(obs_tx, tx, lmfc, jsync, reset)
    /\ UNCHANGED rx_vars
    /\ UNCHANGED <<dp_vars, obs_lmfc>>

NextTX == \E jsync \in BOOLEAN, jref \in BOOLEAN, reset \in BOOLEAN :
            TickTX(jsync, jref, reset)

SpecTX == InitTX /\ [][NextTX]_vars


\* ------------------------------------------------------------------------
\* The RX core on its own: the lanes' words, jref and enable are inputs
\* ------------------------------------------------------------------------

\* The word a peer in step with link l would send now: the table word the
\* checker will look for in the next cycle (the aligner delays the sink by
\* one cycle).
peer_word(lut, l) ==
    LET rst == link_rx_ilas_reset(l.state, ilas_start_valid(l.last))
        c   == IF rst THEN 0 ELSE ilas_counter_next(l.ilas_counter)
    IN  IF c < ilas_len THEN lut[c + 1] ELSE zero_word

\* A word with one octet, or one control flag, changed.
corrupt_octet(w, j) == [w EXCEPT !.data[j] = (@ + 1) % 256]
corrupt_ctrl(w, j) == [w EXCEPT !.ctrl[j] = 1 - @]

\* A word that carries the R control character in slot 1: a stream skewed
\* by one octet.
skew_word ==
    Word([j \in Octets |-> IF j = 2 THEN control_characters.R ELSE 0],
         [j \in Octets |-> IF j = 2 THEN 1 ELSE 0])

\* The words a lane is offered in one cycle: CGS, data, the peer's word;
\* for a closely watched lane also the skewed word and every single-octet
\* and single-flag corruption of the peer's word.
plain_words(lut, l) == {cgs_word, zero_word, peer_word(lut, l)}

watched_words(lut, l) ==
    plain_words(lut, l) \cup {skew_word}
    \cup {corrupt_octet(peer_word(lut, l), j) : j \in Octets}
    \cup {corrupt_ctrl(peer_word(lut, l), j) : j \in Octets}

\* Number of octets and control flags in which two words differ.
word_diff(a, b) ==
    Cardinality({j \in Octets : a.data[j] # b.data[j]})
    + Cardinality({j \in Octets : a.ctrl[j] # b.ctrl[j]})

\* prev_state[n]: lane n's state one cycle ago.
\* prev_diff[n]: in how many octets and flags the word lane n's checker saw
\*   one cycle ago differed from the table word it expected (0 outside
\*   RECEIVE-ILAS and past the table).
obs_rx_next(lut, links, sinks) ==
    [prev_state |-> [n \in DOMAIN links |-> links[n].state],
     prev_diff |-> [n \in DOMAIN links |->
        IF links[n].state = "RECEIVE-ILAS" /\ links[n].ilas_counter < ilas_len
        THEN word_diff(aligner_source(links[n].alignment, links[n].last,
                                      sinks[n]),
                       lut[links[n].ilas_counter + 1])
        ELSE 0]]

\* at_zero: whether every lane was in RECEIVE-DATA in the most recent
\*   LMFC-zero cycle (FALSE before the first one).
\* prev_core: the core's outputs one cycle ago.
\* prev_zero: whether the cycle that just ended was an LMFC-zero cycle.
obs_core_next(o, c, links, l) ==
    [at_zero |-> IF lmfc_zero(l)
                 THEN \A n \in DOMAIN links : links[n].state = "RECEIVE-DATA"
                 ELSE o.at_zero,
     prev_core |-> c,
     prev_zero |-> lmfc_zero(l)]

InitIdleTX ==
    /\ tx = << >>
    /\ in_jsync = FALSE
    /\ in_tx_reset = FALSE
    /\ obs_tx = << >>

InitRX(lanes) ==
    /\ lmfc = lmfc_reset
    /\ rx = [n \in lanes |-> link_rx_reset(zero_word)]
    /\ rx_core = core_rx_reset
    /\ ilas_lut = [chk |-> ILASCheckerTable]
    /\ in_jref = FALSE
    /\ in_rx_reset = FALSE
    /\ in_sink = [n \in lanes |-> zero_word]
    /\ InitIdleTX
    /\ InitIdleDp
    /\ obs_lmfc = << >>

\* One cycle of the RX core: link.reset = ~enable and
\* link.lmfc_zero = lmfc.zero for every lane, sinks[n] on lane n's sink.
TickRX(sinks, jref, reset) ==
    /\ rx' = [n \in DOMAIN rx |->
                link_rx_step(rx[n], ilas_lut.chk, sinks[n], lmfc_zero(lmfc),
                             reset, ilas_check)]
    /\ rx_core' = core_rx_step(rx_core, rx, lmfc_zero(lmfc))
    /\ lmfc' = lmfc_step(lmfc, jref, lmfc_load_rx)
    /\ in_sink' = sinks
    /\ in_jref' = jref
    /\ in_rx_reset' = reset
    /\ UNCHANGED <<tx, ilas_check, ilas_lut, in_jsync, in_tx_reset, obs_tx>>
    /\ UNCHANGED <<dp_vars, obs_lmfc>>

\* A single lane, offered the watched words.
WatchedLanes == {0}

InitRXLink ==
    /\ InitRX(WatchedLanes)
    /\ ilas_check \in BOOLEAN
    /\ obs_rx = [prev_state |-> [n \in WatchedLanes |-> "RECEIVE-CGS"],
                 prev_diff |-> [n \in WatchedLanes |-> 0]]
    /\ obs_core = << >>

NextRXLink ==
    \E w \in watched_words(ilas_lut.chk, rx[0]), reset \in BOOLEAN :
        /\ TickRX([n \in WatchedLanes |-> w], FALSE, reset)
        /\ obs_rx' = obs_rx_next(ilas_lut.chk, rx, [n \in WatchedLanes |-> w])
        /\ UNCHANGED obs_core

SpecRXLink == InitRXLink /\ [][NextRXLink]_vars

\* The clock never stops.
SpecRXLinkFair == SpecRXLink /\ WF_vars(NextRXLink)

\* Every lane of the core; the peer of each lane sends either CGS or the
\* word in step with the lane (the ILAS word it expects, data after the
\* ILAS).  ilas_check has the constructor's default.
InitRXCore ==
    /\ InitRX(Lanes)
    /\ ilas_check = TRUE
    /\ obs_rx = << >>
    /\ obs_core = [at_zero |-> FALSE, prev_core |-> core_rx_reset,
                   prev_zero |-> FALSE]

NextRXCore ==
    \E sinks \in [Lanes -> {"cgs", "peer"}], reset \in BOOLEAN :
        /\ TickRX([n \in Lanes |->
                    IF sinks[n] = "cgs" THEN cgs_word
                    ELSE peer_word(ilas_lut.chk, rx[n])],
                  FALSE, reset)
        /\ obs_core' = obs_core_next(obs_core, rx_core, rx, lmfc)
        /\ UNCHANGED obs_rx

SpecRX == InitRXCore /\ [][NextRXCore]_vars

\* ------------------------------------------------------------------------
\* A TX link and an RX link of the same lane, back to back: the RX sink is
\* the TX source, the TX jsync is the RX jsync, both on one LMFC
\* ------------------------------------------------------------------------

\* Framer: frame_last marks the last octet of every frame.
framer_frame_last(j) == j % F = 0

\* AlignInserter: the control flags of a word of scrambled octets; the
\* framer raises multiframe_last on the last octet of the word only.
align_inserter_ctrl(data, multiframe_last) ==
    [j \in Octets |->
        LET ml == multiframe_last /\ j = octets_per_clock
        IN  IF data[j] = control_characters.A
            THEN (IF ml THEN 1 ELSE 0)
            ELSE IF data[j] = control_characters.F
            THEN (IF framer_frame_last(j) /\ ~ml THEN 1 ELSE 0)
            ELSE 0]

\* The table of the generator of the watched lane.
WatchedTable == ILASGeneratorTable(0)

\* Mutant of link_tx_source: the datapath's word is sent in SEND-ILAS too.
link_tx_source_no_ilas(l, lut, data) ==
    CASE l.state = "SEND-CGS"  -> cgs_word
      [] OTHER ->
            Word(data, align_inserter_ctrl(
                           data, framer_multiframe_last(l.framer_counter)))

\* source of a TX link: CGS, the word of the generator's memories lut at
\* the index register, or the datapath's word for the scrambled octets
\* `data`.
link_tx_source(l, lut, data) ==
    CASE l.state = "SEND-CGS"  -> cgs_word
      [] l.state = "SEND-ILAS" -> lut[l.ilas_counter + 1]
      [] l.state = "SEND-DATA" ->
            Word(data, align_inserter_ctrl(
                           data, framer_multiframe_last(l.framer_counter)))

\* The scrambler's output is not computed here: the last octet of a word
\* is any of an ordinary octet and the two octets the AlignInserter flags.
scrambled_words ==
    {[j \in Octets |-> IF j = octets_per_clock THEN o ELSE 0] :
        o \in {0, control_characters.A, control_characters.F}}

\* Where cgs_run saturates.
LinkMaxRun == lmfc_period + 4 * lmfc_cycles + 4

\* cgs_run: the number of cycles since the cycle in which the RX link
\* detected CGS (its last cycle in RECEIVE-CGS), with no reset of either
\* link and no return to RECEIVE-CGS since (0: no such run in progress).
\* s is the RX state of the cycle that ends, t the state it leads to.
obs_link_next(o, s, t, reset) ==
    [prev_state |-> s,
     cgs_run |->
        IF reset \/ t = "RECEIVE-CGS" THEN 0
        ELSE IF s = "RECEIVE-CGS" THEN 1
        ELSE IF o.cgs_run > 0 THEN Min(o.cgs_run + 1, LinkMaxRun)
        ELSE 0]

InitLink ==
    /\ lmfc = lmfc_reset
    /\ tx = [n \in WatchedLanes |-> link_tx_reset]
    /\ rx = [n \in WatchedLanes |-> link_rx_reset(zero_word)]
    /\ rx_core = << >>
    /\ ilas_check \in BOOLEAN
    /\ ilas_lut = [gen |-> WatchedTable, chk |-> ILASCheckerTable]
    /\ in_jsync = FALSE
    /\ in_jref = FALSE
    /\ in_tx_reset = FALSE
    /\ in_rx_reset = FALSE
    /\ in_sink = [n \in WatchedLanes |-> zero_word]
    /\ obs_tx = << >>
    /\ obs_rx = [prev_state |-> "RECEIVE-CGS", cgs_run |-> 0]
    /\ obs_core = << >>
    /\ InitIdleDp
    /\ obs_lmfc = << >>

TickLink(data, tx_reset, rx_reset) ==
    LET word  == link_tx_source(tx[0], ilas_lut.gen, data)
        jsync == link_rx_jsync(rx[0].state)
    IN  /\ tx' = [n \in WatchedLanes |->
                    link_tx_step(tx[n], jsync, lmfc_zero(lmfc), tx_reset)]
        /\ rx' = [n \in WatchedLanes |->
                    link_rx_step(rx[n], ilas_lut.chk, word, lmfc_zero(lmfc),
                                 rx_reset, ilas_check)]
        /\ lmfc' = lmfc_step(lmfc, FALSE, lmfc_load_tx)
        /\ in_jsync' = jsync
        /\ in_jref' = FALSE
        /\ in_tx_reset' = tx_reset
        /\ in_rx_reset' = rx_reset
        /\ in_sink' = [n \in WatchedLanes |-> word]
        /\ obs_rx' = obs_link_next(obs_rx, rx[0].state, rx'[0].state,
                                   tx_reset \/ rx_reset)
        /\ UNCHANGED <<rx_core, ilas_check, ilas_lut, obs_tx, obs_core>>
        /\ UNCHANGED <<dp_vars, obs_lmfc>>

NextLink ==
    \E data \in scrambled_words, tx_reset \in BOOLEAN, rx_reset \in BOOLEAN :
        TickLink(data, tx_reset, rx_reset)

SpecLink == InitLink /\ [][NextLink]_vars


\* ------------------------------------------------------------------------
\* The back-to-back links with their datapaths: the TX scrambler feeds
\* the framer and the AlignInserter, the RX descrambler takes the aligned
\* word
\* ------------------------------------------------------------------------

\* datapath.descrambler.reset: 1 in every state but RECEIVE-DATA.
link_rx_descrambler_reset(state) ==
    state \in {"RECEIVE-CGS", "ASSERT-SYNC", "RECEIVE-ILAS"}

\* Number of cycles a TX link is left in SEND-DATA before it is reset.
DataCycles == 4

\* Longest run of the TX scrambler out of reset: the ILAS and DataCycles
\* cycles of data.
MaxScramblerRun == ilas_len + DataCycles

\* The samples on the TX link's sink: one word, held for the whole run.
sample_words == {octets_bits(<<0, 0, 0, 0>>), octets_bits(<<1, 35, 69, 103>>)}

\* run: the number of cycles the TX scrambler has been out of reset.
\* tx_run, rx_run: whether the scrambler (descrambler) state has differed
\* from the seed since the start.
\* prev_tx, prev_rx: the links' states one cycle ago.
obs_link_data_next(o, d, txs, rxs, scr_reset) ==
    [run |-> IF scr_reset THEN 0 ELSE Min(o.run + 1, MaxScramblerRun),
     tx_run |-> o.tx_run \/ d.scr.state # scrambler_reset_state,
     rx_run |-> o.rx_run \/ d.dscr.state # scrambler_reset_state,
     prev_tx |-> txs,
     prev_rx |-> rxs]

InitLinkData ==
    /\ lmfc = lmfc_reset
    /\ tx = [n \in WatchedLanes |-> link_tx_reset]
    /\ rx = [n \in WatchedLanes |-> link_rx_reset(zero_word)]
    /\ rx_core = << >>
    /\ ilas_check \in BOOLEAN
    /\ ilas_lut = [gen |-> WatchedTable, chk |-> ILASCheckerTable]
    /\ in_jsync = FALSE
    /\ in_jref = FALSE
    /\ in_tx_reset = FALSE
    /\ in_rx_reset = FALSE
    /\ in_sink = [n \in WatchedLanes |-> zero_word]
    /\ obs_tx = << >>
    /\ obs_rx = << >>
    /\ obs_core = << >>
    /\ dp = [scr |-> scrambler_init(octets_bits(zero_word.data)),
             dscr |-> scrambler_init(octets_bits(zero_word.data))]
    /\ in_data \in sample_words
    /\ obs_dp = [run |-> 0, tx_run |-> FALSE, rx_run |-> FALSE,
                 prev_tx |-> "SEND-CGS", prev_rx |-> "RECEIVE-CGS"]
    /\ obs_lmfc = << >>

\* One cycle: the link's reset reaches the scrambler, the framer and the
\* descrambler too (ResetInserter), and the FSMs add their own resets.
TickLinkData(tx_reset, rx_reset) ==
    LET word      == link_tx_source(tx[0], ilas_lut.gen,
                                    bits_octets(dp.scr.source))
        jsync     == link_rx_jsync(rx[0].state)
        aligned   == aligner_source(rx[0].alignment, rx[0].last, word)
        scr_reset == tx_reset \/ link_tx_scrambler_reset(tx[0].state)
    IN  /\ obs_dp.run < MaxScramblerRun \/ tx_reset
        /\ tx' = [n \in WatchedLanes |->
                    link_tx_step(tx[n], jsync, lmfc_zero(lmfc), tx_reset)]
        /\ rx' = [n \in WatchedLanes |->
                    link_rx_step(rx[n], ilas_lut.chk, word, lmfc_zero(lmfc),
                                 rx_reset, ilas_check)]
        /\ dp' = [scr  |-> scrambler_step(dp.scr, in_data, scr_reset),
                  dscr |-> descrambler_step(
                               dp.dscr, octets_bits(aligned.data),
                               rx_reset
                               \/ link_rx_descrambler_reset(rx[0].state))]
        /\ lmfc' = lmfc_step(lmfc, FALSE, lmfc_load_tx)
        /\ in_jsync' = jsync
        /\ in_jref' = FALSE
        /\ in_tx_reset' = tx_reset
        /\ in_rx_reset' = rx_reset
        /\ in_sink' = [n \in WatchedLanes |-> word]
        /\ obs_dp' = obs_link_data_next(obs_dp, dp, tx[0].state, rx[0].state,
                                        scr_reset)
        /\ UNCHANGED <<rx_core, ilas_check, ilas_lut, in_data, obs_tx,
                       obs_rx, obs_core, obs_lmfc>>

NextLinkData ==
    \E tx_reset \in BOOLEAN, rx_reset \in BOOLEAN :
        TickLinkData(tx_reset, rx_reset)

SpecLinkData == InitLinkData /\ [][NextLinkData]_vars

\* ------------------------------------------------------------------------
\* link.py: a Scrambler feeding a Descrambler, both with the default seed
\* and one reset; a word from outside every cycle
\* ------------------------------------------------------------------------

\* Longest run of the pair out of reset.
MaxPairRun == 4

\* reset: the reset of the last cycle; was_reset: whether there has been a
\* reset cycle; age: the number of cycles since the last reset cycle (since
\* the start if there was none); d1, d2: the scrambler's sink one and two
\* cycles ago; prev: the registers one cycle ago.
obs_pair_next(o, d, data, reset) ==
    [reset |-> reset,
     was_reset |-> o.was_reset \/ reset,
     age |-> IF reset THEN 0 ELSE Min(o.age + 1, MaxPairRun),
     d1 |-> data,
     d2 |-> o.d1,
     prev |-> d]

InitPair ==
    /\ dp = [scr |-> scrambler_init(octets_bits(zero_word.data)),
             dscr |-> scrambler_init(octets_bits(zero_word.data))]
    /\ in_data = octets_bits(zero_word.data)
    /\ obs_dp = [reset |-> FALSE, was_reset |-> FALSE, age |-> 0,
                 d1 |-> octets_bits(zero_word.data),
                 d2 |-> octets_bits(zero_word.data),
                 prev |-> dp]
    /\ lmfc = << >>
    /\ tx = << >>
    /\ in_jsync = FALSE
    /\ in_jref = FALSE
    /\ in_tx_reset = FALSE
    /\ obs_tx = << >>
    /\ obs_lmfc = << >>
    /\ InitIdleRX

\* One cycle: the descrambler's sink is the scrambler's source.
TickPair(data, reset) ==
    /\ obs_dp.age < MaxPairRun \/ reset
    /\ dp' = [scr  |-> scrambler_step(dp.scr, data, reset),
              dscr |-> descrambler_step(dp.dscr, dp.scr.source, reset)]
    /\ in_data' = data
    /\ obs_dp' = obs_pair_next(obs_dp, dp, data, reset)
    /\ UNCHANGED <<tx_vars, rx_vars, obs_lmfc>>

NextPair ==
    \E data \in sample_words, reset \in BOOLEAN : TickPair(data, reset)

SpecPair == InitPair /\ [][NextPair]_vars

\* ------------------------------------------------------------------------
\* link.py: an AlignInserter on its own, a word of link_layout on its sink
\* every cycle
\* ------------------------------------------------------------------------

\* A record of link_layout: per octet data, ctrl, frame_last and
\* multiframe_last, and the single last.
LinkWord(d, c, l, fl, ml) ==
    [data |-> d, ctrl |-> c, last |-> l, frame_last |-> fl,
     multiframe_last |-> ml]

\* Mutant of align_inserter: an octet equal to A or F gets its control
\* flag whatever its position flags are.
align_inserter_by_value(sink) ==
    [sink EXCEPT !.ctrl =
        [j \in Octets |->
            IF sink.data[j] \in {control_characters.A, control_characters.F}
            THEN 1
            ELSE sink.ctrl[j]]]

\* AlignInserter: source.eq(sink), then per octet the If/Elif on A and F
\* that sets source.ctrl[i].
align_inserter(sink) ==
    [sink EXCEPT !.ctrl =
        [j \in Octets |->
            IF sink.data[j] = control_characters.A
            THEN (IF sink.multiframe_last[j] = 1 THEN 1 ELSE sink.ctrl[j])
            ELSE IF sink.data[j] = control_characters.F
            THEN (IF sink.frame_last[j] = 1 /\ sink.multiframe_last[j] = 0
                  THEN 1 ELSE sink.ctrl[j])
            ELSE sink.ctrl[j]]]

\* One octet of a sink word: <<data, ctrl, frame_last, multiframe_last>>.
align_octets ==
    {control_characters.A, control_characters.F, control_characters.K}
        \X {0, 1} \X {0, 1} \X {0, 1}

\* The octets that fill the rest of a word: a data octet, and octets that
\* equal A and F and carry no flag.
align_fill == {<<0, 0, 0, 0>>, <<control_characters.A, 0, 0, 0>>,
               <<control_characters.F, 0, 0, 0>>}

\* The sink words: one octet of align_octets in one slot, the others
\* filled with one octet of align_fill.
align_words ==
    {LinkWord([j \in Octets |-> IF j = i THEN o[1] ELSE b[1]],
              [j \in Octets |-> IF j = i THEN o[2] ELSE b[2]],
              l,
              [j \in Octets |-> IF j = i THEN o[3] ELSE b[3]],
              [j \in Octets |-> IF j = i THEN o[4] ELSE b[4]]) :
        <<i, o, b, l>> \in Octets \X align_octets \X align_fill \X {0, 1}}

InitIdleLinks ==
    /\ lmfc = << >>
    /\ tx = << >>
    /\ in_jsync = FALSE
    /\ in_jref = FALSE
    /\ in_tx_reset = FALSE
    /\ obs_tx = << >>
    /\ obs_lmfc = << >>
    /\ InitIdleRX

InitAlign ==
    /\ in_data = LinkWord(zero_word.data, zero_word.ctrl, 0,
                          zero_word.ctrl, zero_word.ctrl)
    /\ dp = [source |-> align_inserter(in_data)]
    /\ obs_dp = << >>
    /\ InitIdleLinks

TickAlign(sink) ==
    /\ in_data' = sink
    /\ dp' = [source |-> align_inserter(sink)]
    /\ UNCHANGED <<obs_dp, tx_vars, rx_vars, obs_lmfc>>

NextAlign == \E sink \in align_words : TickAlign(sink)

SpecAlign == InitAlign /\ [][NextAlign]_vars

\* ------------------------------------------------------------------------
\* link.py: a CGSGenerator and a CGSChecker on their own, a word on the
\* checker's sink every cycle
\* ------------------------------------------------------------------------

\* The words on the checker's sink: per octet K or K with one bit changed,
\* with or without the control flag.
cgs_sink_words ==
    {Word(d, c) : d \in [Octets -> {control_characters.K, 189}],
                  c \in [Octets -> {0, 1}]}

InitCGS ==
    /\ in_data = zero_word
    /\ dp = [valid |-> cgs_checker_valid(in_data), source |-> cgs_word]
    /\ obs_dp = [prev_valid |-> FALSE]
    /\ InitIdleLinks

TickCGS(sink) ==
    /\ in_data' = sink
    /\ dp' = [valid |-> cgs_checker_valid(sink), source |-> cgs_word]
    /\ obs_dp' = [prev_valid |-> dp.valid]
    /\ UNCHANGED <<tx_vars, rx_vars, obs_lmfc>>

NextCGS == \E sink \in cgs_sink_words : TickCGS(sink)

SpecCGS == InitCGS /\ [][NextCGS]_vars

\* ------------------------------------------------------------------------
\* link.py: an ILASGenerator on its own, built for any F in {1, 2, 4} and
\* any K; its reset is driven from outside
\* ------------------------------------------------------------------------

\* The largest K a generator is built for here.
MaxIlasK == 18

\* The octets of the settings with F = f and K = k (L follows from
\* F == M*S*NP/8/L), after calc_fchk.
ilas_settings(f, k) ==
    calc_fchk(set_fields(settings_init,
                         << <<"L", 8 \div f>>, <<"F", f>>, <<"K", k>> >>))

\* ILAS.__init__, multiframe i as a Python list of opm octets: the counter
\* pattern, then multiframe[0] = R, multiframe[-1] = A, and for i = 1
\* multiframe[1] = Q and the slice assignment multiframe[2:2+14] = octets,
\* which replaces what the list has at indices 2..15 and makes the list
\* 16 long when it was shorter.
ilas_multiframe_list(opm, i, settings_octets, with_counter) ==
    LET m0 == [j \in 1..opm |->
                  IF with_counter THEN Data((i * opm + (j - 1)) % 256)
                  ELSE Data(0)]
        m1 == [m0 EXCEPT ![1] = Control(control_characters.R)]
        m2 == [m1 EXCEPT ![opm] = Control(control_characters.A)]
        m3 == [m2 EXCEPT ![2] = Control(control_characters.Q)]
        cfg == [j \in 1..LEN |-> Data(settings_octets[j])]
    IN  IF i # 1 THEN m2
        ELSE SubSeq(m3, 1, 2) \o cfg
             \o (IF opm > 2 + LEN THEN SubSeq(m3, 3 + LEN, opm) ELSE << >>)

\* ILAS.__init__ for F = f, K = k: built is FALSE when multiframe[1] = Q
\* raises IndexError (a list of one octet) or the assert on the number of
\* words fails; words are the data_words and ctrl_words, the octets left
\* over after the last whole word dropped.
ilas_new(f, k, settings_octets, with_counter) ==
    LET opm == f * k
        o == IF opm < 2 THEN << >>
             ELSE ilas_multiframe_list(opm, 0, settings_octets, with_counter)
                  \o ilas_multiframe_list(opm, 1, settings_octets,
                                          with_counter)
                  \o ilas_multiframe_list(opm, 2, settings_octets,
                                          with_counter)
                  \o ilas_multiframe_list(opm, 3, settings_octets,
                                          with_counter)
        n == Len(o) \div octets_per_clock
        ok == opm >= 2 /\ n = (f * k * 4) \div octets_per_clock
    IN  [built |-> ok, F |-> f, K |-> k, settings |-> settings_octets,
         len |-> IF ok THEN n ELSE 0,
         words |-> IF ok
                   THEN [i \in 1..n |->
                            Word([j \in 1..octets_per_clock |->
                                    o[(i - 1) * octets_per_clock + j].value],
                                 [j \in 1..octets_per_clock |->
                                    o[(i - 1) * octets_per_clock + j].ctrl])]
                   ELSE << >>]

\* Octet n (from 0) of a table, as an octet of the sequence.
ilas_table_octet(t, n) ==
    LET w == t.words[(n \div octets_per_clock) + 1]
        j == (n % octets_per_clock) + 1
    IN  [value |-> w.data[j], ctrl |-> w.ctrl[j]]

\* Mutant of ilas_index_next: the index goes back to 0 after the table.
ilas_index_next_wrap(counter, len) ==
    IF counter >= len - 1 THEN 0 ELSE counter + 1

\* If(counter != len(self.data_words), counter.eq(counter + 1))
ilas_index_next(counter, len) ==
    IF counter # len THEN counter + 1 ELSE counter

\* What the memories' read ports can give at the index: the word of the
\* table, and past the table (the index len is no address of a memory of
\* len words) any of a zero word and the word at address 0.
ilas_read(t, counter) ==
    IF counter < t.len THEN {t.words[counter + 1]}
    ELSE {zero_word, t.words[1]}

\* The generator's register and combinational outputs at an index.
ilas_generator_at(t, counter, word) ==
    [counter |-> counter,
     source  |-> word,
     last    |-> counter = t.len - 1,
     done    |-> counter = t.len]

\* reset: the reset of the last cycle; was_reset: whether there has been
\* a reset cycle; age: the number of cycles since the last reset cycle
\* (since the start if there was none), up to len + 2; prev: the generator
\* one cycle ago.
obs_ilas_next(o, g, t, reset) ==
    [reset |-> reset,
     was_reset |-> o.was_reset \/ reset,
     age |-> IF reset THEN 0 ELSE Min(o.age + 1, t.len + 2),
     prev |-> g]

InitILAS ==
    /\ \E f \in {1, 2, 4}, k \in 1..MaxIlasK :
          ilas_lut = ilas_new(f, k, ilas_settings(f, k), TRUE)
    /\ dp = ilas_generator_at(ilas_lut, 0,
                IF ilas_lut.built THEN ilas_lut.words[1] ELSE zero_word)
    /\ obs_dp = [reset |-> FALSE, was_reset |-> FALSE, age |-> 0,
                 prev |-> dp]
    /\ in_data = << >>
    /\ lmfc = << >>
    /\ tx = << >>
    /\ in_jsync = FALSE
    /\ in_jref = FALSE
    /\ in_tx_reset = FALSE
    /\ obs_tx = << >>
    /\ obs_lmfc = << >>
    /\ rx = << >>
    /\ rx_core = << >>
    /\ ilas_check = TRUE
    /\ in_rx_reset = FALSE
    /\ in_sink = << >>
    /\ obs_rx = << >>
    /\ obs_core = << >>

TickILAS(reset) ==
    LET counter == IF reset THEN 0
                   ELSE ilas_index_next(dp.counter, ilas_lut.len)
    IN  /\ \E word \in ilas_read(ilas_lut, counter) :
              dp' = ilas_generator_at(ilas_lut, counter, word)
        /\ obs_dp' = obs_ilas_next(obs_dp, dp, ilas_lut, reset)
        /\ UNCHANGED <<in_data, tx_vars, rx_vars, obs_lmfc>>

NextILAS ==
    /\ ilas_lut.built
    /\ \E reset \in BOOLEAN : TickILAS(reset)

SpecILAS == InitILAS /\ [][NextILAS]_vars

\* ------------------------------------------------------------------------
\* core.py: an LMFC on its own, for any K and frames per clock; jref and
\* load are driven from outside
\* ------------------------------------------------------------------------

\* The largest K an LMFC is built for here.
MaxLmfcK == 6

\* The frames per clock of LINK_DW = 32: F = 4, 2, 1.
LmfcFrClk == {1, 2, 4}

\* LMFC.__init__: lmfc_cycles = int(K // FR_CLK), truncating, and
\* load % lmfc_cycles, which raises ZeroDivisionError when lmfc_cycles is
\* 0.  There is no other check.  built: whether the constructor returns.
lmfc_new(k, fr_clk, load) ==
    LET cycles == k \div fr_clk
    IN  IF cycles = 0
        THEN [built |-> FALSE, K |-> k, FR_CLK |-> fr_clk]
        ELSE [built |-> TRUE, K |-> k, FR_CLK |-> fr_clk,
              cycles |-> cycles,
              bits |-> bits_for(cycles - 1),
              load |-> load % cycles,
              jref_r |-> FALSE, jref_d |-> FALSE, count |-> 0]

\* Mutant of lmfc_load_now: the load follows the level of _jref.
lmfc_load_now_level(l) == l.jref_r

\* is_load = _jref & ~_jref_d
lmfc_load_now(l) == l.jref_r /\ ~l.jref_d

\* One clock edge: count.eq(count + 1) on a register of len(count) bits;
\* load_in is what the outside writes to the load signal.
lmfc_tick(l, jref_in, load_in) ==
    [l EXCEPT !.jref_r = jref_in,
              !.jref_d = l.jref_r,
              !.load   = load_in,
              !.count  = IF lmfc_load_now(l) THEN l.load
                         ELSE (l.count + 1) % Pow2(l.bits)]

\* j1, j2: jref one and two cycles ago; loaded: whether the last edge
\* loaded the counter; prev: the registers one cycle ago.
obs_lmfc_next(o, l, jref_in) ==
    [j1 |-> jref_in,
     j2 |-> o.j1,
     loaded |-> o.j1 /\ ~o.j2,
     prev |-> l]

InitLMFC ==
    /\ \E k \in 1..MaxLmfcK, fr_clk \in LmfcFrClk, load \in {0, 5} :
          lmfc = lmfc_new(k, fr_clk, load)
    /\ obs_lmfc = [j1 |-> FALSE, j2 |-> FALSE, loaded |-> FALSE,
                   prev |-> lmfc]
    /\ in_jref = FALSE
    /\ tx = << >>
    /\ in_jsync = FALSE
    /\ in_tx_reset = FALSE
    /\ obs_tx = << >>
    /\ InitIdleRX
    /\ InitIdleDp

TickLMFC(jref, load) ==
    /\ lmfc' = lmfc_tick(lmfc, jref, load)
    /\ in_jref' = jref
    /\ obs_lmfc' = obs_lmfc_next(obs_lmfc, lmfc, jref)
    /\ UNCHANGED <<tx, in_jsync, in_tx_reset, obs_tx, rx_vars, dp_vars>>

NextLMFC ==
    /\ lmfc.built
    /\ \E jref \in BOOLEAN, load \in {lmfc.load, 0, lmfc.cycles - 1} :
           TickLMFC(jref, load)

SpecLMFC == InitLMFC /\ [][NextLMFC]_vars


\* ------------------------------------------------------------------------
\* common.py: a JESD204BSettings object and one call on it: set_field,
\* calc_fchk, or export_constants followed by import_constants
\* ------------------------------------------------------------------------

FieldNames == {FieldOrder[i] : i \in 1..Len(FieldOrder)}

\* Mutant of settings_set_field: the field is not cleared before the value
\* is or-ed in.
settings_set_field_no_mask(octets, name, val) ==
    LET index  == FIELDS[name][1]
        offset == FIELDS[name][2]
        width  == FIELDS[name][3]
        v      == IF FIELDS[name][4] THEN val - 1 ELSE val
        old    == octets[index + 1]
        field  == BitField(old, offset, width)
        ored   == [i \in 0..(width - 1) |->
                     IF (field \div Pow2(i)) % 2 = 1 \/ (v \div Pow2(i)) % 2 = 1
                     THEN 1 ELSE 0]
    IN  IF v >= Pow2(width) \/ v < 0
        THEN [err |-> "ValueError", octets |-> octets]
        ELSE [err |-> "none",
              octets |-> [octets EXCEPT ![index + 1] =
                            old - field * Pow2(offset)
                            + bits_value(ored, 0, width) * Pow2(offset)]]

\* Mutant of settings_set_field: a count is stored as it is given.
settings_set_field_as_is(octets, name, val) ==
    LET index  == FIELDS[name][1]
        offset == FIELDS[name][2]
        width  == FIELDS[name][3]
        old    == octets[index + 1]
        kept   == old - BitField(old, offset, width) * Pow2(offset)
    IN  IF val >= Pow2(width)
        THEN [err |-> "ValueError", octets |-> octets]
        ELSE [err |-> "none",
              octets |-> [octets EXCEPT ![index + 1] =
                            kept + val * Pow2(offset)]]

\* set_field with any natural val: the raise of val >= 2**width comes
\* before any write; a val of -1 (a count of 0) passes that test, the
\* field is cleared by octets[index] &= ~mask, and the assignment of the
\* negative octets[index] | (val << offset) to the bytearray then raises
\* ValueError.
settings_set_field(octets, name, val) ==
    LET index  == FIELDS[name][1]
        offset == FIELDS[name][2]
        width  == FIELDS[name][3]
        v      == IF FIELDS[name][4] THEN val - 1 ELSE val
        old    == octets[index + 1]
        kept   == old - BitField(old, offset, width) * Pow2(offset)
    IN  IF v >= Pow2(width)
        THEN [err |-> "ValueError", octets |-> octets]
        ELSE IF v < 0
        THEN [err |-> "ValueError",
              octets |-> [octets EXCEPT ![index + 1] = kept]]
        ELSE [err |-> "none",
              octets |-> [octets EXCEPT ![index + 1] =
                            kept + v * Pow2(offset)]]

\* The value calc_fchk writes to FCHK.
settings_fchk(octets, over_octets) ==
    IF over_octets THEN SumSeq(SubSeq(octets, 1, 11)) % 256
    ELSE SumSeq([i \in 1..Len(FieldOrder) |->
                    IF FieldOrder[i] = "FCHK" THEN 0
                    ELSE get_field(octets, FieldOrder[i])]) % 256

\* Mutant of settings_consistent: the quotient is taken with integer
\* division.
settings_consistent_floor(octets) ==
    get_field(octets, "F")
        = ((get_field(octets, "M") * get_field(octets, "S")
            * get_field(octets, "NP")) \div 8) \div get_field(octets, "L")

\* self.F != (self.M * self.S * self.NP) / 8 / self.L, a float division.
settings_consistent(octets) ==
    get_field(octets, "F") * 8 * get_field(octets, "L")
        = get_field(octets, "M") * get_field(octets, "S")
          * get_field(octets, "NP")

\* Mutant of settings_calc_fchk: the sum is taken over the stored values
\* of the fields, not the decoded ones.
settings_calc_fchk_raw(octets, over_octets) ==
    LET val == SumSeq([i \in 1..Len(FieldOrder) |->
                          IF FieldOrder[i] = "FCHK" THEN 0
                          ELSE BitField(octets[FIELDS[FieldOrder[i]][1] + 1],
                                        FIELDS[FieldOrder[i]][2],
                                        FIELDS[FieldOrder[i]][3])]) % 256
        o   == set_field(octets, "FCHK", val)
    IN  [err |-> IF settings_consistent(o) /\ get_field(o, "F") \in {1, 2, 4}
                 THEN "none" ELSE "ValueError",
         octets |-> o]

\* calc_fchk: FCHK is written first, then the sanity checks raise.
settings_calc_fchk(octets, over_octets) ==
    LET o == set_field(octets, "FCHK", settings_fchk(octets, over_octets))
    IN  [err |-> IF ~settings_consistent(o) THEN "ValueError"
                 ELSE IF get_field(o, "F") \notin {1, 2, 4} THEN "ValueError"
                 ELSE "none",
         octets |-> o]

\* export_constants: the decoded value of every field under its name.
settings_export(octets) == [n \in FieldNames |-> get_field(octets, n)]

\* The setattr loop of import_constants over the fields, in the order of
\* the export, from names[i] on; it stops at the first set_field that
\* raises.
RECURSIVE settings_import_fields(_, _, _)
settings_import_fields(octets, constants, i) ==
    IF i > Len(FieldOrder) THEN [err |-> "none", octets |-> octets]
    ELSE LET r == settings_set_field(octets, FieldOrder[i],
                                     constants[FieldOrder[i]])
         IN  IF r.err # "none" THEN r
             ELSE settings_import_fields(r.octets, constants, i + 1)

\* Mutant of settings_import: the imported FCHK is not compared.
settings_import_unchecked(constants, over_octets) ==
    LET r == settings_import_fields([i \in 1..LEN |-> 0], constants, 1)
    IN  IF r.err # "none" THEN r
        ELSE settings_calc_fchk(r.octets, over_octets)

\* JESD204BSettings(json_file=...): import_constants on a new bytearray,
\* then calc_fchk and the comparison with the imported FCHK.
settings_import(constants, over_octets) ==
    LET r == settings_import_fields([i \in 1..LEN |-> 0], constants, 1)
        c == settings_calc_fchk(r.octets, over_octets)
    IN  IF r.err # "none" THEN r
        ELSE IF c.err # "none" THEN c
        ELSE IF get_field(r.octets, "FCHK") # get_field(c.octets, "FCHK")
        THEN [err |-> "RuntimeError", octets |-> c.octets]
        ELSE c

\* The values set_field is called with, for a field of a given width:
\* 0, 1, 2 and around 2**width.
settings_values(name) ==
    {0, 1, 2, Pow2(FIELDS[name][3]) - 1, Pow2(FIELDS[name][3]),
     Pow2(FIELDS[name][3]) + 1}

\* The object after __init__ with L, F, N, NP given on top of the
\* modelled settings, calc_fchk called on it or not (pre: the octets
\* before the call of the behaviour; over: FCHK_OVER_OCTETS).
InitSettings ==
    /\ \E l \in {1, 2, 3, 4}, f \in {1, 2, 3, 4, 8}, np \in {12, 16},
          called \in BOOLEAN, over \in BOOLEAN :
          LET o == set_fields(settings_init,
                              << <<"L", l>>, <<"F", f>>, <<"N", np>>,
                                 <<"NP", np>> >>)
              s == IF called THEN settings_calc_fchk(o, over).octets ELSE o
          IN  /\ dp = [octets |-> s, err |-> "none"]
              /\ obs_dp = [pre |-> s, over |-> over]
    /\ in_data = [op |-> "new"]
    /\ InitIdleLinks

SettingsSetField(name, val) ==
    /\ in_data.op = "new"
    /\ dp' = settings_set_field(dp.octets, name, val)
    /\ in_data' = [op |-> "set_field", name |-> name, val |-> val]
    /\ UNCHANGED <<obs_dp, tx_vars, rx_vars, obs_lmfc>>

SettingsCalcFchk ==
    /\ in_data.op = "new"
    /\ dp' = settings_calc_fchk(dp.octets, obs_dp.over)
    /\ in_data' = [op |-> "calc_fchk"]
    /\ UNCHANGED <<obs_dp, tx_vars, rx_vars, obs_lmfc>>

\* The constants of an export are imported into a new object, with FCHK
\* as exported (delta = 0) or changed by delta.
SettingsImport(delta) ==
    /\ in_data.op = "new"
    /\ dp' = settings_import(
                 [settings_export(dp.octets) EXCEPT
                     !["FCHK"] = (@ + delta) % 256],
                 obs_dp.over)
    /\ in_data' = [op |-> "import", delta |-> delta]
    /\ UNCHANGED <<obs_dp, tx_vars, rx_vars, obs_lmfc>>

NextSettings ==
    \/ \E name \in FieldNames :
          \E val \in settings_values(name) : SettingsSetField(name, val)
    \/ SettingsCalcFchk
    \/ \E delta \in {0, 1, 128} : SettingsImport(delta)

SpecSettings == InitSettings /\ [][NextSettings]_vars

\* ------------------------------------------------------------------------
\* link.py: an ILASChecker built next to an ILASGenerator, from the same
\* settings
\* ------------------------------------------------------------------------

\* The Python values the constructors pass on.
PySettings(f, k, octets) ==
    [type |-> "JESD204BSettings", F |-> f, K |-> k, octets |-> octets]
PyInt(value) == [type |-> "int", value |-> value]
PyBool(value) == [type |-> "bool", value |-> value]

\* ILAS.__init__(self, data_width, jesd_settings, with_counter=True), the
\* arguments bound by position: its first statement reads jesd_settings.F
\* and jesd_settings.K, which raises AttributeError on a bool, and
\* data_width//8 raises TypeError on a settings object.
ilas_init(data_width, jesd_settings, with_counter) ==
    LET failed(err) ==
            [built |-> FALSE, err |-> err, len |-> 0, words |-> << >>]
    IN  IF jesd_settings.type # "JESD204BSettings"
        THEN failed("AttributeError")
        ELSE IF data_width.type # "int" THEN failed("TypeError")
        ELSE LET t == ilas_new(jesd_settings.F, jesd_settings.K,
                               jesd_settings.octets, with_counter.value)
             IN  [built |-> t.built,
                  err |-> IF t.built THEN "none" ELSE "Error",
                  len |-> t.len, words |-> t.words]

\* ILASGenerator.__init__:
\* ILAS.__init__(self, data_width, jesd_settings, with_counter)
ilas_generator_new(jesd_settings, with_counter) ==
    ilas_init(PyInt(LINK_DW), jesd_settings, with_counter)

\* ILASChecker.__init__:
\* ILAS.__init__(self, jesd_settings, with_counter), so data_width is the
\* settings object, jesd_settings is with_counter and with_counter is the
\* default True.
ilas_checker_new(jesd_settings, with_counter) ==
    ilas_init(jesd_settings, with_counter, PyBool(TRUE))

\* A generator and a checker are constructed from the settings of F and K;
\* the generator then runs as in SpecILAS.
InitILASChecker ==
    /\ \E f \in {1, 2, 4}, k \in 1..MaxIlasK :
          /\ ilas_lut = ilas_new(f, k, ilas_settings(f, k), TRUE)
          /\ rx = [generator |->
                       ilas_generator_new(
                           PySettings(f, k, ilas_settings(f, k)),
                           PyBool(TRUE)),
                   checker |->
                       ilas_checker_new(
                           PySettings(f, k, ilas_settings(f, k)),
                           PyBool(TRUE))]
    /\ dp = ilas_generator_at(ilas_lut, 0,
                IF ilas_lut.built THEN ilas_lut.words[1] ELSE zero_word)
    /\ obs_dp = [reset |-> FALSE, was_reset |-> FALSE, age |-> 0,
                 prev |-> dp]
    /\ in_data = << >>
    /\ lmfc = << >>
    /\ tx = << >>
    /\ in_jsync = FALSE
    /\ in_jref = FALSE
    /\ in_tx_reset = FALSE
    /\ obs_tx = << >>
    /\ obs_lmfc = << >>
    /\ rx_core = << >>
    /\ ilas_check = TRUE
    /\ in_rx_reset = FALSE
    /\ in_sink = << >>
    /\ obs_rx = << >>
    /\ obs_core = << >>

SpecILASChecker == InitILASChecker /\ [][NextILAS]_vars

\* ------------------------------------------------------------------------
\* link.py: the TX links of several lanes constructed one after another
\* from one settings object, each building its ILAS table
\* ------------------------------------------------------------------------

\* The largest lane id a TX link is constructed for here.
MaxLID == 7

\* Mutant of link_tx_settings: the checksum is left as it was.
link_tx_settings_stale_fchk(octets, n, over_octets) ==
    settings_set_field(octets, "LID", n).octets

\* LiteJESD204BLinkTX.__init__ on the settings object:
\* jesd_settings.LID = n; jesd_settings.calc_fchk()
link_tx_settings(octets, n, over_octets) ==
    settings_calc_fchk(settings_set_field(octets, "LID", n).octets,
                       over_octets).octets

\* ilas = ILASGenerator(jesd_settings): the table holds what the settings
\* object held when the link of lane n was constructed.
link_tx_new(octets, n, over_octets) ==
    [lane  |-> n,
     table |-> ILAS(link_tx_settings(octets, n, over_octets), TRUE)]

\* No link constructed yet.
link_tx_none == [lane |-> 0 - 1, table |-> << >>]

\* Octet p (from 0) of a table: its value and its control flag.
table_octet(table, p) ==
    [value |-> table[(p \div octets_per_clock) + 1]
                  .data[(p % octets_per_clock) + 1],
     ctrl  |-> table[(p \div octets_per_clock) + 1]
                  .ctrl[(p % octets_per_clock) + 1]]

\* The 14 octets a table carries after the Q of multiframe 1.
table_settings(table) ==
    [i \in 1..LEN |->
        table_octet(table, octets_per_multiframe + 2 + (i - 1)).value]

\* dp: the settings object and the link constructed last; obs_dp: the two
\* links constructed before it.  The object starts as the constructor
\* leaves it, or with a lane id already written to it.
InitLanes ==
    /\ \E over \in BOOLEAN, lid \in {0, 31} :
          dp = [octets |-> settings_set_field(settings_init, "LID",
                                              lid).octets,
                over |-> over, link |-> link_tx_none]
    /\ obs_dp = [prev |-> link_tx_none, prev2 |-> link_tx_none]
    /\ in_data = << >>
    /\ InitIdleLinks

LinkTXNew(n) ==
    /\ dp' = [dp EXCEPT !.octets = link_tx_settings(dp.octets, n, dp.over),
                        !.link = link_tx_new(dp.octets, n, dp.over)]
    /\ obs_dp' = [prev |-> dp.link, prev2 |-> obs_dp.prev]
    /\ UNCHANGED <<in_data, tx_vars, rx_vars, obs_lmfc>>

NextLanes == \E n \in 0..MaxLID : LinkTXNew(n)

SpecLanes == InitLanes /\ [][NextLanes]_vars

\* ------------------------------------------------------------------------
\* transport.py: LiteJESD204BTransportTX and LiteJESD204BTransportRX for
\* several settings.  A converter word is the sequence of its samples
\* (sample s is bits s*N .. (s+1)*N-1), a lane word the sequence of its
\* octets.
\* ------------------------------------------------------------------------

\* What the transport layers read of the settings; FR_CLK as calc_fchk
\* sets it.
TransportSettings(l, m, s, n, np, f) ==
    [L |-> l, M |-> m, S |-> s, N |-> n, NP |-> np, F |-> f,
     FR_CLK |-> (LINK_DW \div 8) \div f]

samples_per_clock(js) == js.S * js.FR_CLK

\* ceil(jesd_settings.NP / 4)
nibbles_per_word(js) == (js.NP + 3) \div 4

\* TX, frame's samples: for j in range(M): for i in range(S), the sample
\* current_sample + i of converter j.
transport_tx_frame_samples(js, sink, current_sample) ==
    [w \in 1..(js.M * js.S) |->
        sink[((w - 1) \div js.S) + 1][current_sample + ((w - 1) % js.S) + 1]]

\* Mutant of transport_tx_frame_nibbles: the nibbles of a word lowest
\* first.
transport_tx_frame_nibbles_ls_first(js, frame_words) ==
    [q \in 1..(Len(frame_words) * nibbles_per_word(js)) |->
        (frame_words[((q - 1) \div nibbles_per_word(js)) + 1]
            \div Pow2(4 * ((q - 1) % nibbles_per_word(js)))) % 16]

\* TX, frame's nibbles: for each word, for i in
\* reversed(range(nibbles_per_word)), word[4*i:4*(i+1)]; the word is a
\* Signal(N), so what the slice has above bit N-1 reads as 0.
transport_tx_frame_nibbles(js, frame_words) ==
    [q \in 1..(Len(frame_words) * nibbles_per_word(js)) |->
        (frame_words[((q - 1) \div nibbles_per_word(js)) + 1]
            \div Pow2(4 * (nibbles_per_word(js) - 1
                           - ((q - 1) % nibbles_per_word(js))))) % 16]

\* Mutant of transport_tx_frame_octets: the first nibble of a pair in the
\* low half of the octet.
transport_tx_frame_octets_swapped(frame_nibbles) ==
    [k \in 1..(Len(frame_nibbles) \div 2) |->
        frame_nibbles[2 * k] * 16 + frame_nibbles[2 * k - 1]]

\* TX, frame's octets: for i in range(len(frame_nibbles)//2),
\* Cat(frame_nibbles[2*i+1], frame_nibbles[2*i]).
transport_tx_frame_octets(frame_nibbles) ==
    [k \in 1..(Len(frame_nibbles) \div 2) |->
        frame_nibbles[2 * k - 1] * 16 + frame_nibbles[2 * k]]

\* The lane words of the TX: octet p of lane i is octet p % F of the
\* slice frame_octets[i*F:(i+1)*F] of frame p // F, where the slice has
\* one, and is not driven (0) otherwise.
transport_tx(js, sink) ==
    [i \in 1..js.L |->
        [p \in 1..octets_per_clock |->
            LET f == (p - 1) \div js.F
                k == (i - 1) * js.F + ((p - 1) % js.F) + 1
                frame_octets ==
                    transport_tx_frame_octets(
                        transport_tx_frame_nibbles(js,
                            transport_tx_frame_samples(js, sink, f * js.S)))
            IN  IF f < js.FR_CLK /\ k <= Len(frame_octets)
                THEN frame_octets[k] ELSE 0]]

\* RX, frame's octets: for i in range(L): for j in range(F), octet
\* current_octet + j of lane i.
transport_rx_frame_octets(js, sink, current_octet) ==
    [k \in 1..(js.L * js.F) |->
        sink[((k - 1) \div js.F) + 1][current_octet + ((k - 1) % js.F) + 1]]

\* RX, frame's nibbles: for each octet, for j in reversed(range(2)),
\* octet[4*j:4*(j+1)].
transport_rx_frame_nibbles(frame_octets) ==
    [q \in 1..(2 * Len(frame_octets)) |->
        IF q % 2 = 1 THEN frame_octets[(q + 1) \div 2] \div 16
        ELSE frame_octets[q \div 2] % 16]

\* RX, frame's words: for j in range(M): for i in range(S): for k in
\* range(nibbles_per_word): word[4*k:4*(k+1)].eq(frame_nibbles.pop()),
\* pop() taking the last nibble the list still has.
transport_rx_frame_words(js, frame_nibbles) ==
    [w \in 1..(js.M * js.S) |->
        SumSeq([k \in 1..nibbles_per_word(js) |->
                   frame_nibbles[Len(frame_nibbles)
                                 - ((w - 1) * nibbles_per_word(js) + (k - 1))]
                   * Pow2(4 * (k - 1))])]

\* LiteJESD204BTransportRX.__init__ completes when the list of 2*L*F
\* nibbles has a nibble for every pop(); pop() from the empty list raises
\* IndexError.
transport_rx_built(js) ==
    js.M * js.S * nibbles_per_word(js) <= 2 * js.L * js.F

\* The converter words of the RX: for j in range(M): for i in range(S),
\* the N bits of sample current_sample + i get frame_samples.pop(), the
\* last word the list still has, cut to N bits.
transport_rx(js, sink) ==
    [j \in 1..js.M |->
        [s \in 1..samples_per_clock(js) |->
            LET f == (s - 1) \div js.S
                frame_words ==
                    transport_rx_frame_words(js,
                        transport_rx_frame_nibbles(
                            transport_rx_frame_octets(js, sink, f * js.F)))
            IN  frame_words[js.M * js.S
                            - ((j - 1) * js.S + ((s - 1) % js.S))]
                    % Pow2(js.N)]]

\* The settings the layers are built for: F == M*S*NP/8/L and F in
\* {1, 2, 4} in each; N < NP in one, NP no multiple of 4 in one, two
\* converters on two lanes in the last.
TransportConfigs ==
    {TransportSettings(2, 4, 1, 16, 16, 4),
     TransportSettings(4, 4, 1, 16, 16, 2),
     TransportSettings(1, 1, 1, 8, 8, 1),
     TransportSettings(3, 4, 1, 12, 12, 2),
     TransportSettings(1, 1, 2, 14, 16, 4),
     TransportSettings(7, 4, 1, 14, 14, 1),
     TransportSettings(2, 2, 1, 16, 16, 2)}

\* The converter words presented: every single bit of every sample of
\* every converter set alone, every sample with all N bits set alone,
\* one word with a different value in every sample, and 0x1234 in
\* converter 0 with 0x5678 in converter 1 in the samples of one frame.
transport_sinks(js) ==
    { [j \in 1..js.M |-> [s \in 1..samples_per_clock(js) |->
          IF j = hot[1] /\ s = hot[2] THEN hot[3] ELSE 0]] :
        hot \in (1..js.M) \X (1..samples_per_clock(js))
                \X ({Pow2(b) : b \in 0..(js.N - 1)} \cup {Pow2(js.N) - 1}) }
    \cup
    { [j \in 1..js.M |-> [s \in 1..samples_per_clock(js) |->
          (4661 * ((j - 1) * samples_per_clock(js) + s) + 43981)
              % Pow2(js.N)]] }
    \cup
    { [j \in 1..js.M |-> [s \in 1..samples_per_clock(js) |->
          IF (s - 1) \div js.S # f THEN 0
          ELSE IF j = 1 THEN 4660 % Pow2(js.N)
          ELSE IF j = 2 THEN 22136 % Pow2(js.N)
          ELSE 0]] : f \in 0..(js.FR_CLK - 1) }

InitTransport ==
    /\ \E js \in TransportConfigs :
          \E sink \in transport_sinks(js) :
              dp = [js |-> js, sink |-> sink, stage |-> "new",
                    lanes |-> << >>, source |-> << >>, err |-> "none"]
    /\ in_data = << >>
    /\ obs_dp = << >>
    /\ InitIdleLinks

\* The TX drives its lane words from the converter words.
TransportTX ==
    /\ dp.stage = "new"
    /\ dp' = [dp EXCEPT !.stage = "tx",
                        !.lanes = transport_tx(dp.js, dp.sink)]
    /\ UNCHANGED <<in_data, obs_dp, tx_vars, rx_vars, obs_lmfc>>

\* An RX is constructed and fed the lane words of the TX.
TransportRX ==
    /\ dp.stage = "tx"
    /\ dp' = IF transport_rx_built(dp.js)
             THEN [dp EXCEPT !.stage = "rx",
                             !.source = transport_rx(dp.js, dp.lanes)]
             ELSE [dp EXCEPT !.stage = "rx", !.err = "IndexError"]
    /\ UNCHANGED <<in_data, obs_dp, tx_vars, rx_vars, obs_lmfc>>

NextTransport == TransportTX \/ TransportRX

SpecTransport == InitTransport /\ [][NextTransport]_vars

\* ------------------------------------------------------------------------
\* link.py: a TX link with its datapath, run twice side by side on the
\* same jsync, LMFC and reset with two streams of sink words (a and b);
\* the FSM, the ILAS index and the framer do not depend on the sink, so
\* the two runs share them and differ in their scramblers only
\* ------------------------------------------------------------------------

\* Number of cycles a TX link is left in SEND-DATA before it is reset:
\* two multiframes.
TxDataRun == 2 * lmfc_cycles

\* The ILAS indices at which the two sink streams may differ: the first
\* word scrambled after SEND-CGS and the word before the one that feeds
\* the first SEND-DATA output.
TxDiffAt == {0, ilas_len - 2}

\* The pairs of sink words of a cycle: equal or different in SEND-CGS,
\* different only at the indices of TxDiffAt in SEND-ILAS, equal from the
\* word that feeds the first SEND-DATA output on and zero after the
\* second cycle of SEND-DATA.
tx_sink_pairs(l, data_age) ==
    LET zero == octets_bits(zero_word.data)
    IN  CASE l.state = "SEND-CGS" -> {<<zero, w>> : w \in sample_words}
          [] l.state = "SEND-ILAS" ->
                IF l.ilas_counter = ilas_len - 1
                THEN {<<w, w>> : w \in sample_words}
                ELSE IF l.ilas_counter \in TxDiffAt
                THEN {<<zero, w>> : w \in sample_words}
                ELSE {<<zero, zero>>}
          [] l.state = "SEND-DATA" ->
                IF data_age < 2 THEN {<<w, w>> : w \in sample_words}
                ELSE {<<zero, zero>>}

\* The cycles in which the link's reset may be driven: any cycle of
\* SEND-CGS, the first and the last cycles of SEND-ILAS, the second cycle
\* of SEND-DATA and the end of the run.
tx_resets(l, data_age) ==
    IF \/ l.state = "SEND-CGS"
       \/ l.state = "SEND-ILAS" /\ l.ilas_counter \in {0, ilas_len - 1}
       \/ l.state = "SEND-DATA" /\ data_age \in {1, TxDataRun}
    THEN BOOLEAN ELSE {FALSE}

\* jsync is free in SEND-CGS, in SEND-DATA and in the first and the last
\* cycles of SEND-ILAS, and is held in between.
tx_jsyncs(l, jsync) ==
    IF l.state = "SEND-ILAS" /\ l.ilas_counter > 1
       /\ l.ilas_counter < ilas_len - jsync_timer_t - 1
    THEN {jsync} ELSE BOOLEAN

\* What is kept of the cycle that ends: the link's registers (prev), its
\* reset, the two source words, ready, and
\* ilas_cycles: the number of consecutive cycles in SEND-ILAS so far;
\* data_age: the number of cycles since the last cycle of SEND-ILAS while
\*   the link has stayed in SEND-DATA (0: not in such a run);
\* diff_cgs, diff_ilas: whether the sink words of a and b have differed
\*   in a SEND-CGS (SEND-ILAS) cycle since SEND-DATA was last left;
\* cycles: 1 from the first cycle on.
obs_tx_link_next(o, l, d, reset, pair) ==
    [prev |-> l,
     reset |-> reset,
     out_a |-> link_tx_source(l, ilas_lut.gen, bits_octets(d.a.source)),
     out_b |-> link_tx_source(l, ilas_lut.gen, bits_octets(d.b.source)),
     ready |-> link_tx_ready(l.state),
     ilas_cycles |-> IF l.state = "SEND-ILAS" THEN o.ilas_cycles + 1 ELSE 0,
     data_age |-> IF reset THEN 0
                  ELSE IF l.state = "SEND-ILAS" THEN 0
                  ELSE IF l.state = "SEND-DATA" THEN o.data_age + 1
                  ELSE 0,
     diff_cgs |-> IF l.state = "SEND-CGS"
                  THEN (o.prev.state = "SEND-CGS" /\ o.diff_cgs)
                       \/ pair[1] # pair[2]
                  ELSE o.diff_cgs,
     diff_ilas |-> IF l.state = "SEND-CGS" THEN FALSE
                   ELSE o.diff_ilas
                        \/ (l.state = "SEND-ILAS" /\ pair[1] # pair[2]),
     cycles |-> 1]

InitTXLink ==
    /\ lmfc = lmfc_reset
    /\ tx = [n \in WatchedLanes |-> link_tx_reset]
    /\ in_jsync = FALSE
    /\ in_jref = FALSE
    /\ in_tx_reset = FALSE
    /\ obs_tx = << >>
    /\ obs_lmfc = << >>
    /\ rx = << >>
    /\ rx_core = << >>
    /\ ilas_check = FALSE
    /\ ilas_lut = [gen |-> WatchedTable]
    /\ in_rx_reset = FALSE
    /\ in_sink = << >>
    /\ obs_rx = << >>
    /\ obs_core = << >>
    /\ dp = [a |-> scrambler_init(octets_bits(zero_word.data)),
             b |-> scrambler_init(octets_bits(zero_word.data))]
    /\ in_data = <<octets_bits(zero_word.data), octets_bits(zero_word.data)>>
    /\ obs_dp = [prev |-> link_tx_reset, reset |-> FALSE,
                 out_a |-> zero_word, out_b |-> zero_word, ready |-> FALSE,
                 ilas_cycles |-> 0, data_age |-> 0, diff_cgs |-> FALSE,
                 diff_ilas |-> FALSE, cycles |-> 0]

\* One cycle: the link's reset reaches the scrambler and the framer too
\* (ResetInserter), and the FSM adds its own resets.
TickTXLink(jsync, reset, pair) ==
    LET scr_reset == reset \/ link_tx_scrambler_reset(tx[0].state)
    IN  /\ obs_dp.data_age < TxDataRun \/ reset
        /\ tx' = [n \in WatchedLanes |->
                    link_tx_step(tx[n], jsync, lmfc_zero(lmfc), reset)]
        /\ dp' = [a |-> scrambler_step(dp.a, pair[1], scr_reset),
                  b |-> scrambler_step(dp.b, pair[2], scr_reset)]
        /\ lmfc' = lmfc_step(lmfc, FALSE, lmfc_load_tx)
        /\ in_jsync' = jsync
        /\ in_tx_reset' = reset
        /\ in_data' = pair
        /\ obs_dp' = obs_tx_link_next(obs_dp, tx[0], dp, reset, pair)
        /\ UNCHANGED <<in_jref, obs_tx, obs_lmfc, rx_vars>>

NextTXLink ==
    \E jsync \in tx_jsyncs(tx[0], in_jsync) :
        \E reset \in tx_resets(tx[0], obs_dp.data_age) :
            \E pair \in tx_sink_pairs(tx[0], obs_dp.data_age) :
                TickTXLink(jsync, reset, pair)

SpecTXLink == InitTXLink /\ [][NextTXLink]_vars


\* ------------------------------------------------------------------------
\* link.py: Framer and Deframer, constructed for a link width, F and K
\* ------------------------------------------------------------------------

\* Mutant of framer_new: frame_last marks the first octet of each frame.
framer_new_first_octet(dw_bits, f, k) ==
    LET dw_bytes == dw_bits \div 8
    IN  IF dw_bytes < f \/ dw_bytes % f > 0 \/ k % (dw_bytes \div f) > 0
        THEN [err |-> "ValueError", dw_bytes |-> dw_bytes,
              clocks_per_multiframe |-> 0, frame_last |-> << >>,
              counter |-> 0]
        ELSE [err |-> "none", dw_bytes |-> dw_bytes,
              clocks_per_multiframe |-> k \div (dw_bytes \div f),
              frame_last |-> [i \in 0..(dw_bytes - 1) |->
                                 IF i % f = 0 THEN 1 ELSE 0],
              counter |-> 0]

\* Framer.__init__: dw_bytes = dw_bits // 8 and the quotient
\* frames_per_clock = dw_bytes / F (a float) is refused when it is below 1
\* (dw_bytes < F) or has a fractional part (F does not divide dw_bytes);
\* then K % frames_per_clock > 0 is refused.  frame_last has bit i set
\* when (i+1) % F == 0; counter is the 8-bit cycle counter.
framer_new(dw_bits, f, k) ==
    LET dw_bytes == dw_bits \div 8
    IN  IF dw_bytes < f
        THEN [err |-> "ValueError", dw_bytes |-> dw_bytes,
              clocks_per_multiframe |-> 0, frame_last |-> << >>,
              counter |-> 0]
        ELSE IF dw_bytes % f > 0
        THEN [err |-> "ValueError", dw_bytes |-> dw_bytes,
              clocks_per_multiframe |-> 0, frame_last |-> << >>,
              counter |-> 0]
        ELSE IF k % (dw_bytes \div f) > 0
        THEN [err |-> "ValueError", dw_bytes |-> dw_bytes,
              clocks_per_multiframe |-> 0, frame_last |-> << >>,
              counter |-> 0]
        ELSE [err |-> "none", dw_bytes |-> dw_bytes,
              clocks_per_multiframe |-> k \div (dw_bytes \div f),
              frame_last |-> [i \in 0..(dw_bytes - 1) |->
                                 IF (i + 1) % f = 0 THEN 1 ELSE 0],
              counter |-> 0]

\* Framer, combinational: data passes through, frame_last is the mask,
\* multiframe_last is 1 << (dw_bytes - 1) when the counter is
\* clocks_per_multiframe - 1 and 0 otherwise.
framer_source(fr, sink) ==
    [data |-> sink,
     frame_last |-> fr.frame_last,
     multiframe_last |->
        [i \in 0..(fr.dw_bytes - 1) |->
            IF fr.counter = fr.clocks_per_multiframe - 1
               /\ i = fr.dw_bytes - 1
            THEN 1 ELSE 0]]

\* Framer, one clock edge (ResetInserter): the counter returns to 0
\* after a cycle with multiframe_last != 0 and counts modulo 2^8
\* otherwise.
framer_tick(fr, reset) ==
    [fr EXCEPT !.counter =
        IF reset THEN 0
        ELSE IF fr.counter = fr.clocks_per_multiframe - 1 THEN 0
        ELSE (fr.counter + 1) % 256]

\* Deframer.__init__: frame_width = F * 8,
\* frames_per_clock = data_width // frame_width, and the three asserts.
deframer_new(data_width, f, k) ==
    LET frame_width == f * 8
        fpc == data_width \div frame_width
    IN  IF ~(frame_width <= data_width) THEN [err |-> "AssertionError"]
        ELSE IF ~(data_width % frame_width = 0)
        THEN [err |-> "AssertionError"]
        ELSE IF ~(k % fpc = 0) THEN [err |-> "AssertionError"]
        ELSE [err |-> "none"]

\* Deframer, combinational: source.data = sink.data.
deframer_source(sink) == [data |-> sink]

\* The link widths, in bits, the two are constructed for: two and four
\* octets, and four octets and a half.
FramerWidths == {16, 32, 36}

\* Largest F and K the two are constructed for.
MaxFramerF == 9
MaxFramerK == 8

\* Longest run of a framer between two resets.
MaxFramerAge == 2 * MaxFramerK + 1

\* The sink words of a link of dw_bits bits: all zero, and a pattern.
framer_sinks(dw_bits) ==
    {[i \in 0..(dw_bits - 1) |-> 0],
     [i \in 0..(dw_bits - 1) |-> (i \div 3) % 2]}

\* age: the number of cycles since the framer was last in reset (since
\*   its construction if it never was);
\* src, src_sink: the framer's source and sink in its last cycle, src_age
\*   the age in that cycle; de_src, de_sink: the deframer's source and
\*   sink in its last cycle;
\* seen: which of the two have been clocked.
InitFramer ==
    /\ \E dw \in FramerWidths, f \in 1..MaxFramerF, k \in 1..MaxFramerK :
          dp = [stage |-> "new", dw_bits |-> dw, F |-> f, K |-> k,
                fr |-> << >>, de |-> << >>]
    /\ in_data = << >>
    /\ obs_dp = [age |-> 0, src |-> << >>, src_age |-> 0, src_sink |-> << >>,
                 de_src |-> << >>, de_sink |-> << >>, seen |-> {}]
    /\ InitIdleLinks

\* Framer(dw_bits, jesd_settings) and Deframer(jesd_settings) with
\* LINK_DW = dw_bits are constructed.
FramerBuild ==
    /\ dp.stage = "new"
    /\ dp' = [dp EXCEPT !.stage = "built",
                        !.fr = framer_new(dp.dw_bits, dp.F, dp.K),
                        !.de = deframer_new(dp.dw_bits, dp.F, dp.K)]
    /\ UNCHANGED <<in_data, obs_dp, tx_vars, rx_vars, obs_lmfc>>

\* One cycle of the framer.
FramerTick(sink, reset) ==
    /\ dp.stage = "built"
    /\ dp.fr.err = "none"
    /\ obs_dp.age < MaxFramerAge \/ reset
    /\ dp' = [dp EXCEPT !.fr = framer_tick(dp.fr, reset)]
    /\ in_data' = [sink |-> sink, reset |-> reset]
    /\ obs_dp' = [obs_dp EXCEPT !.age = IF reset THEN 0 ELSE obs_dp.age + 1,
                                !.src = framer_source(dp.fr, sink),
                                !.src_age = obs_dp.age,
                                !.src_sink = sink,
                                !.seen = obs_dp.seen \cup {"framer"}]
    /\ UNCHANGED <<tx_vars, rx_vars, obs_lmfc>>

\* One cycle of the deframer.
DeframerTick(sink) ==
    /\ dp.stage = "built"
    /\ dp.de.err = "none"
    /\ in_data' = [sink |-> sink, reset |-> FALSE]
    /\ obs_dp' = [obs_dp EXCEPT !.de_src = deframer_source(sink),
                                !.de_sink = sink,
                                !.seen = obs_dp.seen \cup {"deframer"}]
    /\ UNCHANGED <<dp, tx_vars, rx_vars, obs_lmfc>>

NextFramer ==
    \/ FramerBuild
    \/ \E sink \in framer_sinks(dp.dw_bits), reset \in BOOLEAN :
          FramerTick(sink, reset)
    \/ \E sink \in framer_sinks(dp.dw_bits) : DeframerTick(sink)

SpecFramer == InitFramer /\ [][NextFramer]_vars


\* ------------------------------------------------------------------------
\* link.py: an Aligner fed words with R control characters and with
\* octets of value R that are data, and an ILASStartChecker on its source
\* (as in the RX link)
\* ------------------------------------------------------------------------

\* The octets the sink words are made of besides the plain ones: R with
\* its control flag and R without.
aligner_marks == {<<control_characters.R, 1>>, <<control_characters.R, 0>>}

\* A word of plain data octets (16 * base + slot), with the octets of
\* `marks` (slot :> <<data, ctrl>>) put over them.
aligner_word(base, marks) ==
    Word([j \in Octets |->
             IF j \in DOMAIN marks THEN marks[j][1] ELSE 16 * base + j],
         [j \in Octets |-> IF j \in DOMAIN marks THEN marks[j][2] ELSE 0])

\* The sink words: plain words of two kinds, and plain words with one or
\* two marked octets.
aligner_words ==
    {aligner_word(b, << >>) : b \in {1, 2}}
    \cup {aligner_word(1, (i :> m)) : i \in Octets, m \in aligner_marks}
    \cup {aligner_word(1, (i :> m) @@ (j :> n)) :
             i \in Octets, j \in Octets, m \in aligner_marks,
             n \in aligner_marks}

\* before: the sink word of the cycle before the last;
\* source: the aligner's source in the last cycle;
\* used: the alignment register during the last cycle;
\* start: the start checker's valid in the last cycle;
\* cycles: the number of cycles so far, up to 2.
InitAligner ==
    /\ dp = [alignment |-> 0, last |-> zero_word]
    /\ in_data = zero_word
    /\ obs_dp = [before |-> zero_word, source |-> zero_word, used |-> 0,
                 start |-> FALSE, cycles |-> 0]
    /\ InitIdleLinks

\* One cycle of the aligner and the start checker.
TickAligner(sink) ==
    /\ dp' = [alignment |-> aligner_alignment_next(dp.alignment, sink),
              last |-> sink]
    /\ in_data' = sink
    /\ obs_dp' = [before |-> in_data,
                  source |-> aligner_source(dp.alignment, dp.last, sink),
                  used |-> dp.alignment,
                  start |-> ilas_start_valid(
                               aligner_source(dp.alignment, dp.last, sink)),
                  cycles |-> IF obs_dp.cycles < 2 THEN obs_dp.cycles + 1
                             ELSE 2]
    /\ UNCHANGED <<tx_vars, rx_vars, obs_lmfc>>

NextAligner == \E sink \in aligner_words : TickAligner(sink)

SpecAligner == InitAligner /\ [][NextAligner]_vars


\* ------------------------------------------------------------------------
\* core.py: an LMFC with a constant load, resynchronised by jref
\* ------------------------------------------------------------------------

\* The load values an LMFC is constructed with.
LmfcSyncLoads == {0, 1, 3}

\* What is kept of the cycles so far, l being the registers during the
\* cycle that ends and n the registers after it:
\* loads: the number of cycles in which is_load held, up to 2;
\* ph: the number of cycles since the first of them, modulo lmfc_cycles;
\* aligned: whether every later one came a multiple of lmfc_cycles
\*   cycles after the first;
\* reload: whether the cycle that ended was one of the later ones;
\* prev: the registers during the cycle that ended;
\* seenz, zs: whether zero has been asserted since the first load, and
\*   the number of cycles since it last was (up to 2^bits);
\* gap: when zero is asserted again, the number of cycles since it last
\*   was (0: no such measurement in this cycle).
obs_lmfc_sync_next(o, l, n) ==
    LET is_load == lmfc_load_now(l)
        first == is_load /\ o.loads = 0
        zero == n.count = 0
    IN  [loads |-> IF is_load /\ o.loads < 2 THEN o.loads + 1 ELSE o.loads,
         ph |-> IF first THEN 1 % l.cycles
                ELSE IF o.loads = 0 THEN 0
                ELSE (o.ph + 1) % l.cycles,
         aligned |-> o.aligned /\ (is_load /\ o.loads > 0 => o.ph = 0),
         reload |-> is_load /\ o.loads > 0,
         prev |-> l,
         seenz |-> IF first THEN zero
                   ELSE IF o.loads = 0 THEN FALSE
                   ELSE o.seenz \/ zero,
         zs |-> IF zero \/ first \/ o.loads = 0 THEN 0
                ELSE IF o.zs < Pow2(l.bits) THEN o.zs + 1 ELSE o.zs,
         gap |-> IF zero /\ ~first /\ o.loads > 0 /\ o.seenz
                 THEN o.zs + 1 ELSE 0]

InitLMFCSync ==
    /\ \E k \in 1..MaxLmfcK, fr_clk \in LmfcFrClk, load \in LmfcSyncLoads :
          lmfc = lmfc_new(k, fr_clk, load)
    /\ obs_lmfc = [loads |-> 0, ph |-> 0, aligned |-> TRUE, reload |-> FALSE,
                   prev |-> lmfc, seenz |-> FALSE, zs |-> 0, gap |-> 0]
    /\ in_jref = FALSE
    /\ tx = << >>
    /\ in_jsync = FALSE
    /\ in_tx_reset = FALSE
    /\ obs_tx = << >>
    /\ InitIdleRX
    /\ InitIdleDp

\* One cycle; nothing writes the load signal.
TickLMFCSync(jref) ==
    /\ lmfc' = lmfc_tick(lmfc, jref, lmfc.load)
    /\ in_jref' = jref
    /\ obs_lmfc' = obs_lmfc_sync_next(obs_lmfc, lmfc, lmfc')
    /\ UNCHANGED <<tx, in_jsync, in_tx_reset, obs_tx, rx_vars, dp_vars>>

NextLMFCSync ==
    /\ lmfc.built
    /\ \E jref \in BOOLEAN : TickLMFCSync(jref)

SpecLMFCSync == InitLMFCSync /\ [][NextLMFCSync]_vars

\* ------------------------------------------------------------------------
\* Properties of the TX core (SpecTX)
\* ------------------------------------------------------------------------

\* C1: every TX link starts in SEND-CGS, is in SEND-CGS after a cycle with
\* reset, and without reset changes state only from SEND-CGS to SEND-ILAS
\* in a cycle with lmfc_zero and jsync, from SEND-ILAS to SEND-DATA in the
\* cycle the last table word is streamed, and from SEND-DATA to SEND-CGS
\* in a cycle where the jsync timer has expired.
C1_TxStep(n) ==
    LET s == tx[n].state
        t == tx'[n].state
    IN  IF in_tx_reset' THEN t = "SEND-CGS"
        ELSE \/ t = s
             \/ /\ s = "SEND-CGS" /\ t = "SEND-ILAS"
                /\ lmfc.count = 0 /\ in_jsync'
             \/ /\ s = "SEND-ILAS" /\ t = "SEND-DATA"
                /\ tx[n].ilas_counter = ilas_len - 1
             \/ /\ s = "SEND-DATA" /\ t = "SEND-CGS"
                /\ tx[n].jsync_timer = 0

C1_TxTransitions ==
    /\ \A n \in Lanes : tx[n].state = "SEND-CGS"
    /\ [][\A n \in Lanes : C1_TxStep(n)]_vars

\* C1 witness: a link is back in SEND-CGS, one cycle after SEND-DATA,
\* without a reset.
C1_Witness ==
    /\ tx[0].state = "SEND-CGS"
    /\ obs_tx.prev_state[0] = "SEND-DATA"
    /\ ~in_tx_reset

\* C3 as stated: once jsync has been held asserted for 4 * lmfc_cycles
\* cycles, counted from a cycle in which the link was in SEND-CGS, the
\* link is in SEND-DATA.
C3_Original ==
    \A n \in Lanes :
        obs_tx.jsync_run >= 4 * lmfc_cycles => tx[n].state = "SEND-DATA"

\* C3 amended: with jsync held asserted from a cycle in which the link is
\* in SEND-CGS, no reset and no LMFC reload, the link is in SEND-DATA
\* after one LMFC counter period plus 4 * lmfc_cycles cycles.
C3_TxReachesData ==
    \A n \in Lanes :
        obs_tx.jsync_run >= lmfc_period + 4 * lmfc_cycles
            => tx[n].state = "SEND-DATA"

\* C3 witness: the bound is met exactly, SEND-DATA being entered in the
\* last cycle the bound allows.
C3_Witness ==
    /\ obs_tx.jsync_run = lmfc_period + 4 * lmfc_cycles
    /\ tx[0].state = "SEND-DATA"
    /\ obs_tx.prev_state[0] = "SEND-ILAS"

\* C9: the TX core's ready is asserted exactly in the cycles in which every
\* lane's link is in SEND-DATA.
C9_TxReadyIsAnd ==
    core_tx_ready(tx) <=> (\A n \in Lanes : tx[n].state = "SEND-DATA")

\* C9 witness: ready is asserted in the last cycle before the lanes leave
\* SEND-DATA.
C9_Witness ==
    /\ core_tx_ready(tx)
    /\ \A n \in Lanes : tx[n].jsync_timer = 0

\* C10: a link leaves SEND-DATA (without reset) only in a cycle preceded by
\* 4 consecutive cycles with jsync deasserted, and it does leave, to
\* SEND-CGS, in every such cycle.
C10_Step(n) ==
    (tx[n].state = "SEND-DATA" /\ ~in_tx_reset')
        => /\ tx'[n].state \in {"SEND-DATA", "SEND-CGS"}
           /\ (tx'[n].state = "SEND-CGS") <=> (obs_tx.low_run >= 4)

C10_Debounce == [][\A n \in Lanes : C10_Step(n)]_vars

\* C10 witness: a link has left SEND-DATA for SEND-CGS, without reset,
\* after 4 consecutive cycles with jsync deasserted.
C10_Witness ==
    /\ tx[0].state = "SEND-CGS"
    /\ obs_tx.prev_state[0] = "SEND-DATA"
    /\ obs_tx.low_run = jsync_timer_t
    /\ ~in_tx_reset

\* ------------------------------------------------------------------------
\* Properties of one RX link (SpecRXLink, SpecRXLinkFair)
\* ------------------------------------------------------------------------

\* The word the checkers of link n see in the cycle that ends.
rx_aligned(n) == aligner_source(rx[n].alignment, rx[n].last, in_sink'[n])

\* C2: every RX link starts in RECEIVE-CGS, is in RECEIVE-CGS after a
\* cycle with reset, and without reset changes state only from RECEIVE-CGS
\* to ASSERT-SYNC in a cycle with lmfc_zero and a valid CGS word, from
\* ASSERT-SYNC to RECEIVE-ILAS on a valid ILAS start, from RECEIVE-ILAS to
\* RECEIVE-DATA when the checker is done, from RECEIVE-ILAS to RECEIVE-CGS
\* when ilas_check is set and the word is not the table's, and from
\* RECEIVE-DATA to RECEIVE-CGS on a valid CGS word.
C2_RxStep(n) ==
    LET s == rx[n].state
        t == rx'[n].state
        w == rx_aligned(n)
    IN  IF in_rx_reset' THEN t = "RECEIVE-CGS"
        ELSE \/ t = s
             \/ /\ s = "RECEIVE-CGS" /\ t = "ASSERT-SYNC"
                /\ lmfc.count = 0
                /\ \A j \in Octets :
                      w.data[j] = control_characters.K /\ w.ctrl[j] = 1
             \/ /\ s = "ASSERT-SYNC" /\ t = "RECEIVE-ILAS"
                /\ w.data[1] = control_characters.R
                /\ w.ctrl = <<1, 0, 0, 0>>
             \/ /\ s = "RECEIVE-ILAS" /\ t = "RECEIVE-DATA"
                /\ rx[n].ilas_counter = ilas_len
             \/ /\ s = "RECEIVE-ILAS" /\ t = "RECEIVE-CGS"
                /\ ilas_check
                /\ rx[n].ilas_counter < ilas_len
                /\ w # ILASCheckerTable[rx[n].ilas_counter + 1]
             \/ /\ s = "RECEIVE-DATA" /\ t = "RECEIVE-CGS"
                /\ \A j \in Octets :
                      w.data[j] = control_characters.K /\ w.ctrl[j] = 1

C5_Step(n) ==
    LET c == rx[n].ilas_counter
        w == rx_aligned(n)
    IN  rx[n].state = "RECEIVE-ILAS" =>
        /\ (ilas_check /\ c < ilas_len
            /\ word_diff(w, ILASCheckerTable[c + 1]) >= 1)
           => rx'[n].state = "RECEIVE-CGS"
        /\ (~ilas_check /\ ~in_rx_reset')
           => /\ rx'[n].state = IF c = ilas_len THEN "RECEIVE-DATA"
                                ELSE "RECEIVE-ILAS"
              /\ rx'[n].ilas_counter = IF c = ilas_len THEN c ELSE c + 1

C6_LeavesAssertSync ==
    \A n \in WatchedLanes :
        (rx[n].state = "ASSERT-SYNC") ~> (rx[n].state # "ASSERT-SYNC")

\* ------------------------------------------------------------------------
\* Properties of the RX core (SpecRX)
\* ------------------------------------------------------------------------

C12_CountBelowCycles ==
    lmfc.built => lmfc.count < lmfc.K \div lmfc.FR_CLK

\* C13: the counter is loaded with the current load in exactly the cycles
\* that follow, with one cycle between, a cycle with jref high that itself
\* followed a cycle with jref low; in every other cycle it counts.
C13_LoadOnRisingEdge ==
    [][IF obs_lmfc.j1 /\ ~obs_lmfc.j2
       THEN lmfc'.count = lmfc.load
       ELSE lmfc'.count = (lmfc.count + 1) % Pow2(lmfc.bits)]_vars

\* C13 witness: the counter has just been loaded, with a value it would
\* not have counted to, while jref stays high.
C13_Witness ==
    /\ lmfc.built
    /\ obs_lmfc.loaded
    /\ obs_lmfc.j1
    /\ lmfc.count = obs_lmfc.prev.load
    /\ lmfc.count # (obs_lmfc.prev.count + 1) % Pow2(lmfc.bits)

\* C14 as stated: no LMFC is built when K is not a multiple of FR_CLK.
C14_RejectsInexactK ==
    lmfc.K % lmfc.FR_CLK # 0 => ~lmfc.built

\* ------------------------------------------------------------------------
\* Properties of the Scrambler and Descrambler (SpecPair)
\* ------------------------------------------------------------------------

\* C15 as stated: from the second cycle after a reset cycle on, the
\* descrambler's output is the scrambler's input of two cycles before, so
\* the first word after the release comes out right.
C15_RoundTripFirstWord ==
    (obs_dp.was_reset /\ obs_dp.age >= 2) => dp.dscr.source = obs_dp.d2

\* C15 amended: from the third cycle after a reset cycle (or after the
\* start) on, the descrambler's output is the scrambler's input of two
\* cycles before: every word but the first after the release comes out
\* right.
C15_RoundTripLaterWords ==
    obs_dp.age >= 3 => dp.dscr.source = obs_dp.d2

\* C15 witness: after a reset, a word other than zero has gone through
\* the pair and has come out right, and was not itself on the wire.
C15_Witness ==
    /\ obs_dp.was_reset
    /\ obs_dp.age >= 3
    /\ obs_dp.d2 # octets_bits(zero_word.data)
    /\ dp.dscr.source = obs_dp.d2
    /\ obs_dp.prev.scr.source # obs_dp.d2

\* C16: a cycle with reset leaves the state at the seed and valid at 0,
\* in the scrambler and in the descrambler; with or without reset, the
\* output after a cycle is the scrambled (descrambled) sink of that cycle.
C16_SyncReset ==
    [][/\ obs_dp'.reset
            => /\ bits_value(dp'.scr.state, 0, 15) = 32640
               /\ bits_value(dp'.dscr.state, 0, 15) = 32640
               /\ ~dp'.scr.valid
               /\ ~dp'.dscr.valid
       /\ ~obs_dp'.reset => dp'.scr.valid /\ dp'.dscr.valid
       /\ dp'.scr.source
              = swizzle(scrambler_feedback(dp.scr.state, in_data'))
       /\ dp'.dscr.source
              = swizzle(descrambler_feedback(dp.dscr.state,
                                             dp.scr.source))]_vars

\* C16 witness: a reset cycle has put a running scrambler and descrambler
\* back to the seed, and the outputs written in that cycle are not zero.
C16_Witness ==
    /\ obs_dp.reset
    /\ obs_dp.prev.scr.state # scrambler_reset_state
    /\ obs_dp.prev.dscr.state # scrambler_reset_state
    /\ dp.scr.state = scrambler_reset_state
    /\ dp.dscr.state = scrambler_reset_state
    /\ dp.scr.source # octets_bits(zero_word.data)
    /\ dp.dscr.source # octets_bits(zero_word.data)

\* ------------------------------------------------------------------------
\* Properties of the AlignInserter (SpecAlign)
\* ------------------------------------------------------------------------

\* C17: the control flag of an octet of the source is set exactly when
\* the sink's was, or the octet is A and last of its multiframe, or the
\* octet is F and last of its frame and not of its multiframe; data, last,
\* frame_last and multiframe_last are the sink's.
C17_AlignInserter ==
    /\ \A j \in Octets :
          dp.source.ctrl[j] = 1
            <=> \/ in_data.ctrl[j] = 1
                \/ /\ in_data.data[j] = 124
                   /\ in_data.multiframe_last[j] = 1
                \/ /\ in_data.data[j] = 252
                   /\ in_data.frame_last[j] = 1
                   /\ in_data.multiframe_last[j] = 0
    /\ dp.source.data = in_data.data
    /\ dp.source.last = in_data.last
    /\ dp.source.frame_last = in_data.frame_last
    /\ dp.source.multiframe_last = in_data.multiframe_last

\* C17 witness: in one word an A at the end of a multiframe has had its
\* control flag set and an A elsewhere has not.
C17_Witness ==
    \E i \in Octets, j \in Octets :
        /\ in_data.data[i] = 124
        /\ in_data.multiframe_last[i] = 1
        /\ in_data.ctrl[i] = 0
        /\ dp.source.ctrl[i] = 1
        /\ in_data.data[j] = 124
        /\ in_data.multiframe_last[j] = 0
        /\ dp.source.ctrl[j] = 0

\* ------------------------------------------------------------------------
\* Properties of the CGS generator and checker (SpecCGS)
\* ------------------------------------------------------------------------

\* C18: valid is asserted exactly for a word whose octets are all K with
\* their control flags, whatever it was before; the generator's word is
\* such a word.
C18_CGS ==
    /\ dp.valid <=> \A j \in Octets :
                        in_data.data[j] = 188 /\ in_data.ctrl[j] = 1
    /\ \A j \in Octets : dp.source.data[j] = 188 /\ dp.source.ctrl[j] = 1
    /\ cgs_checker_valid(dp.source)

\* C18 witness: valid has dropped, after a cycle where it was asserted, on
\* a word of four K with one control flag missing.
C18_Witness ==
    /\ obs_dp.prev_valid
    /\ ~dp.valid
    /\ \A j \in Octets : in_data.data[j] = 188

\* ------------------------------------------------------------------------
\* Properties of the ILAS table and generator (SpecILAS)
\* ------------------------------------------------------------------------

\* C19 as stated: every table that was built is 4 multiframes of F*K
\* octets, each from R to A, the second with Q and the 14 settings octets
\* after R, and every other octet a data octet equal to its index mod 256.
C19_TableStructure ==
    ilas_lut.built =>
        LET opm == ilas_lut.F * ilas_lut.K
        IN  /\ ilas_lut.len * octets_per_clock = 4 * opm
            /\ \A n \in 0..(4 * opm - 1) :
                  ilas_table_octet(ilas_lut, n) =
                      IF n % opm = 0 THEN Control(28)
                      ELSE IF n % opm = opm - 1 THEN Control(124)
                      ELSE IF n = opm + 1 THEN Control(156)
                      ELSE IF n \in (opm + 2)..(opm + 15)
                      THEN Data(ilas_lut.settings[n - opm - 1])
                      ELSE Data(n % 256)

\* C20 as stated: k cycles after the reset, for k below the length of the
\* table, the index is k and the output is word k, and done is raised in
\* the cycle of the last word.
C20_DoneOnLastWord ==
    (ilas_lut.built /\ obs_dp.age < ilas_lut.len)
        => /\ dp.counter = obs_dp.age
           /\ dp.source = ilas_lut.words[obs_dp.age + 1]
           /\ dp.done <=> obs_dp.age = ilas_lut.len - 1

\* C20 amended: k cycles after the reset, for k below the length of the
\* table, the index is k and the output is word k, with last raised in
\* the cycle of the last word and in no other; from the cycle after the
\* last word on the index stays at the length of the table; done is
\* raised in exactly those cycles.
C20_DoneAfterLastWord ==
    ilas_lut.built
        => /\ obs_dp.age < ilas_lut.len
                => /\ dp.counter = obs_dp.age
                   /\ dp.source = ilas_lut.words[obs_dp.age + 1]
           /\ obs_dp.age >= ilas_lut.len => dp.counter = ilas_lut.len
           /\ dp.last <=> obs_dp.age = ilas_lut.len - 1
           /\ dp.done <=> obs_dp.age >= ilas_lut.len

\* C20 witness: after a reset the whole table has gone out and done has
\* been up for two cycles.
C20_Witness ==
    /\ ilas_lut.built
    /\ obs_dp.was_reset
    /\ obs_dp.age = ilas_lut.len + 1
    /\ dp.done
    /\ obs_dp.prev.done
    /\ dp.counter = ilas_lut.len

\* ------------------------------------------------------------------------
\* Properties of the settings (SpecSettings)
\* ------------------------------------------------------------------------

\* Whether a natural value fits a field: below 2**width, and for a count
\* field from 1 to 2**width.
field_fits(name, val) ==
    IF FIELDS[name][4]
    THEN 1 <= val /\ val <= Pow2(FIELDS[name][3])
    ELSE val < Pow2(FIELDS[name][3])

\* C23: set_field with a value that fits succeeds, get_field of the field
\* then returns the value, and get_field of every other field returns
\* what it returned before.
C23_FieldRoundTrip ==
    (in_data.op = "set_field" /\ field_fits(in_data.name, in_data.val))
        => /\ dp.err = "none"
           /\ get_field(dp.octets, in_data.name) = in_data.val
           /\ \A n \in FieldNames \ {in_data.name} :
                 get_field(dp.octets, n) = get_field(obs_dp.pre, n)

\* C23 witness: a count field has been written with its largest count,
\* over a different value, in an octet it shares with another field that
\* is not zero.
C23_Witness ==
    /\ in_data.op = "set_field"
    /\ in_data.name = "S"
    /\ in_data.val = 32
    /\ get_field(obs_dp.pre, "S") = 1
    /\ get_field(dp.octets, "S") = 32
    /\ get_field(dp.octets, "JESDV") = 1

\* C24 as stated: set_field with a value that does not fit fails and
\* leaves the 14 octets as they were.
C24_RangeError ==
    (in_data.op = "set_field" /\ ~field_fits(in_data.name, in_data.val))
        => dp.err # "none" /\ dp.octets = obs_dp.pre

\* C25: after a calc_fchk that succeeded FCHK is, mod 256, the sum of the
\* decoded values of the 21 other fields, or with FCHK_OVER_OCTETS the sum
\* of octets 0..10; a second calc_fchk leaves the 14 octets as they are.
C25_Checksum ==
    (in_data.op = "calc_fchk" /\ dp.err = "none")
        => LET o == dp.octets
               g(n) == get_field(o, n)
           IN  /\ ~obs_dp.over
                    => g("FCHK")
                         = (g("DID") + g("ADJCNT") + g("BID") + g("ADJDIR")
                            + g("PHADJ") + g("LID") + g("SCR") + g("L")
                            + g("F") + g("K") + g("M") + g("CS") + g("N")
                            + g("SUBCLASSV") + g("NP") + g("JESDV") + g("S")
                            + g("HD") + g("CF") + g("RES1") + g("RES2")) % 256
               /\ obs_dp.over
                    => o[14] = (o[1] + o[2] + o[3] + o[4] + o[5] + o[6] + o[7]
                                + o[8] + o[9] + o[10] + o[11]) % 256
               /\ settings_calc_fchk(o, obs_dp.over).err = "none"
               /\ settings_calc_fchk(o, obs_dp.over).octets = o

\* C25 witness: calc_fchk, summing over the fields, has succeeded on an
\* object whose FCHK was 0 and has written another value.
C25_Witness ==
    /\ in_data.op = "calc_fchk"
    /\ dp.err = "none"
    /\ ~obs_dp.over
    /\ obs_dp.pre[14] = 0
    /\ dp.octets[14] # 0

C27_ImportExport ==
    LET g(n) == get_field(obs_dp.pre, n)
    IN  (/\ in_data.op = "import"
         /\ 8 * g("L") * g("F") = g("M") * g("S") * g("NP")
         /\ g("F") \in {1, 2, 4}
         /\ g("FCHK") = settings_fchk(obs_dp.pre, obs_dp.over))
            => IF in_data.delta = 0
               THEN dp.err = "none" /\ dp.octets = obs_dp.pre
               ELSE dp.err = "RuntimeError"

\* C27 witness: an import of the export of valid settings with a computed
\* checksum other than 0 has succeeded.
C27_Witness ==
    /\ in_data.op = "import"
    /\ in_data.delta = 0
    /\ dp.err = "none"
    /\ dp.octets = obs_dp.pre
    /\ get_field(obs_dp.pre, "FCHK") # 0
    /\ get_field(obs_dp.pre, "FCHK") = settings_fchk(obs_dp.pre, obs_dp.over)

\* C28 as stated: after set_field('F', v) octet 4 holds v.
C28_FStoredAsCount ==
    (in_data.op = "set_field" /\ in_data.name = "F" /\ dp.err = "none")
        => dp.octets[5] = in_data.val

\* C28 amended: after set_field('F', v) octet 4 holds v - 1, and a count
\* written to L, K, M, N, NP or S is stored as the count less 1 too.
C28_FStoredAsCountLessOne ==
    (in_data.op = "set_field" /\ dp.err = "none")
        => /\ in_data.name = "F" => dp.octets[5] = in_data.val - 1
           /\ in_data.name = "K" => dp.octets[6] = in_data.val - 1
           /\ in_data.name = "M" => dp.octets[7] = in_data.val - 1
           /\ in_data.name = "L" => dp.octets[4] % 32 = in_data.val - 1
           /\ in_data.name = "N" => dp.octets[8] % 32 = in_data.val - 1
           /\ in_data.name = "NP" => dp.octets[9] % 32 = in_data.val - 1
           /\ in_data.name = "S" => dp.octets[10] % 32 = in_data.val - 1

\* C28 witness: set_field('F', 2) has left 1 in octet 4.
C28_Witness ==
    /\ in_data.op = "set_field"
    /\ in_data.name = "F"
    /\ in_data.val = 2
    /\ dp.err = "none"
    /\ dp.octets[5] = 1

\* C21: a checker constructed from the settings a generator is built
\* from is built, over the generator's table: the same number of words,
\* with the same data and control flags at every index.
C21_SameTable ==
    rx.generator.built
        => /\ rx.checker.built
           /\ rx.checker.len = rx.generator.len
           /\ rx.checker.words = rx.generator.words

\* C22: the table of TX lane n carries settings octets whose LID is n and
\* whose FCHK is the checksum of those octets; a table built again for a
\* lane is the table built for it before; and the tables of two lanes
\* have the same control flags everywhere and the same data everywhere
\* but in the LID octet and the FCHK octet of multiframe 1, where they
\* differ.
C22_PerLaneTable ==
    LET t == dp.link.table
        o == table_settings(t)
        lid_at  == octets_per_multiframe + 2 + 2
        fchk_at == octets_per_multiframe + 2 + 13
        same_but_lid(u) ==
            /\ Len(u) = Len(t)
            /\ \A p \in 0..(Len(t) * octets_per_clock - 1) :
                  /\ table_octet(u, p).ctrl = table_octet(t, p).ctrl
                  /\ p \notin {lid_at, fchk_at}
                        => table_octet(u, p).value = table_octet(t, p).value
            /\ table_octet(u, lid_at).value # table_octet(t, lid_at).value
            /\ table_octet(u, fchk_at).value # table_octet(t, fchk_at).value
        related(link) ==
            link.lane >= 0
                => IF link.lane = dp.link.lane THEN link.table = t
                   ELSE same_but_lid(link.table)
    IN  dp.link.lane >= 0
            => /\ o[3] % 32 = dp.link.lane
               /\ o[14] = (IF dp.over
                           THEN o[1] + o[2] + o[3] + o[4] + o[5] + o[6]
                                + o[7] + o[8] + o[9] + o[10] + o[11]
                           ELSE settings_fchk(o, FALSE)) % 256
               /\ related(obs_dp.prev)
               /\ related(obs_dp.prev2)

\* C22 witness: the link of lane 1 has been constructed, after the link
\* of lane 0, after the link of lane 1.
C22_Witness ==
    /\ dp.link.lane = 1
    /\ obs_dp.prev.lane = 0
    /\ obs_dp.prev2.lane = 1
    /\ dp.link.table = obs_dp.prev2.table
    /\ dp.link.table # obs_dp.prev.table

\* C29: for every settings with F = M*S*NP/8/L, the RX fed the lane words
\* of the TX returns, for every converter and sample position, the sample
\* presented to the TX.
C29_RoundTrip ==
    dp.stage = "rx"
        => /\ dp.err = "none"
           /\ \A j \in 1..dp.js.M :
                 \A s \in 1..samples_per_clock(dp.js) :
                     dp.source[j][s] = dp.sink[j][s]

\* C30: octet j of frame f in the word of lane i (position f*F + j) is
\* octet i*F + j of the frame's sequence: its high nibble is nibble
\* 2*(i*F + j) and its low nibble the one after, where nibble q of the
\* sequence is nibble q % npw, counted from the most significant, of the
\* npw nibbles of sample f*S + (q // npw) % S of converter (q // npw) // S.
C30_TxOrdering ==
    LET js  == dp.js
        npw == IF js.NP % 4 = 0 THEN js.NP \div 4 ELSE (js.NP \div 4) + 1
        nibble(f, q) ==
            (dp.sink[((q \div npw) \div js.S) + 1]
                    [f * js.S + ((q \div npw) % js.S) + 1]
                \div Pow2(4 * (npw - 1 - (q % npw)))) % 16
    IN  dp.stage # "new"
            => \A i \in 0..(js.L - 1), f \in 0..(js.FR_CLK - 1),
                  j \in 0..(js.F - 1) :
                  dp.lanes[i + 1][f * js.F + j + 1]
                      = nibble(f, 2 * (i * js.F + j)) * 16
                        + nibble(f, 2 * (i * js.F + j) + 1)

\* C30 witness: with two frames per clock and four lanes, the TX has put
\* the high octet of the second sample of converter 3 in octet 2 of
\* lane 3.
C30_Witness ==
    /\ dp.stage = "tx"
    /\ dp.js.FR_CLK = 2
    /\ dp.js.L = 4
    /\ dp.sink[4][2] = 32768
    /\ dp.lanes[4][3] = 128

\* C31 as stated: with L=2, M=2, S=1, N=16, NP=16, F=2, converter0 =
\* 0x1234 and converter1 = 0x5678 in a frame give lane0 = [0x34, 0x12]
\* and lane1 = [0x78, 0x56] for that frame, octet 0 listed first.
C31_ExampleLowOctetFirst ==
    \A f \in 0..1 :
        (/\ dp.stage # "new"
         /\ dp.js = TransportSettings(2, 2, 1, 16, 16, 2)
         /\ dp.sink[1][f + 1] = 4660
         /\ dp.sink[2][f + 1] = 22136)
            => /\ dp.lanes[1][2 * f + 1] = 52
               /\ dp.lanes[1][2 * f + 2] = 18
               /\ dp.lanes[2][2 * f + 1] = 120
               /\ dp.lanes[2][2 * f + 2] = 86

\* C31 amended: they give lane0 = [0x12, 0x34] and lane1 = [0x56, 0x78]
\* for that frame, octet 0 listed first.
C31_ExampleHighOctetFirst ==
    \A f \in 0..1 :
        (/\ dp.stage # "new"
         /\ dp.js = TransportSettings(2, 2, 1, 16, 16, 2)
         /\ dp.sink[1][f + 1] = 4660
         /\ dp.sink[2][f + 1] = 22136)
            => /\ dp.lanes[1][2 * f + 1] = 18
               /\ dp.lanes[1][2 * f + 2] = 52
               /\ dp.lanes[2][2 * f + 1] = 86
               /\ dp.lanes[2][2 * f + 2] = 120

\* C31 witness: the TX has mapped 0x1234 and 0x5678 of the first frame
\* and put 0x12 in octet 0 of lane 0.
C31_Witness ==
    /\ dp.stage = "tx"
    /\ dp.js = TransportSettings(2, 2, 1, 16, 16, 2)
    /\ dp.sink[1][1] = 4660
    /\ dp.sink[2][1] = 22136
    /\ dp.sink[1][2] = 0
    /\ dp.lanes[1][1] = 18

\* C32: in every cycle the TX link's source is, in SEND-CGS, K with its
\* control flag in every octet; in SEND-ILAS, the word of the ILAS table
\* at the generator's index; in SEND-DATA, the scrambler's output with
\* the control flags the AlignInserter sets on the framer's position
\* flags; ready is asserted exactly in SEND-DATA.
C32_TxOutputs ==
    [][LET l == tx[0]
           ml == l.framer_counter = clocks_per_multiframe - 1
           ctrl(data) ==
               [j \in Octets |->
                   IF \/ data[j] = 124 /\ ml /\ j = octets_per_clock
                      \/ /\ data[j] = 252
                         /\ j % F = 0
                         /\ ~(ml /\ j = octets_per_clock)
                   THEN 1 ELSE 0]
           right(out, scr) ==
               CASE l.state = "SEND-CGS" ->
                       /\ out.data = [j \in Octets |-> 188]
                       /\ out.ctrl = [j \in Octets |-> 1]
                 [] l.state = "SEND-ILAS" ->
                       /\ l.ilas_counter < Len(ilas_lut.gen)
                       /\ out = ilas_lut.gen[l.ilas_counter + 1]
                 [] l.state = "SEND-DATA" ->
                       /\ out.data = bits_octets(scr.source)
                       /\ out.ctrl = ctrl(out.data)
       IN  /\ obs_dp'.ready <=> l.state = "SEND-DATA"
           /\ right(obs_dp'.out_a, dp.a)
           /\ right(obs_dp'.out_b, dp.b)]_vars

\* C32 witness: the link has been in SEND-DATA for three cycles, ready
\* asserted and scrambled data on its source, after a SEND-ILAS cycle and
\* a SEND-CGS cycle.
C32_Witness ==
    /\ obs_dp.prev.state = "SEND-DATA"
    /\ obs_dp.data_age = 3
    /\ obs_dp.ready
    /\ obs_dp.out_a.data # zero_word.data
    /\ obs_dp.out_a.data # cgs_word.data

\* C38: without a reset the link stays in SEND-ILAS for 4*lmfc_cycles
\* cycles, whatever jsync does, and goes to SEND-DATA; in SEND-DATA the
\* framer raises multiframe_last exactly in the cycles that are a
\* multiple of lmfc_cycles cycles after the last cycle of SEND-ILAS.
C38_MultiframePhase ==
    /\ obs_dp.ilas_cycles <= 4 * lmfc_cycles
    /\ (obs_dp.prev.state = "SEND-ILAS" /\ ~obs_dp.reset)
          => IF obs_dp.ilas_cycles = 4 * lmfc_cycles
             THEN tx[0].state = "SEND-DATA"
             ELSE tx[0].state = "SEND-ILAS"
    /\ tx[0].state = "SEND-DATA"
          => (tx[0].framer_counter = (K \div ((LINK_DW \div 8) \div F)) - 1
                <=> (obs_dp.data_age + 1) % lmfc_cycles = 0)

\* C38 witness: the framer raises multiframe_last in the cycle of
\* SEND-DATA that is 2*lmfc_cycles cycles after the last ILAS word, jsync
\* having been deasserted in the cycle before.
C38_Witness ==
    /\ tx[0].state = "SEND-DATA"
    /\ tx[0].framer_counter = clocks_per_multiframe - 1
    /\ obs_dp.data_age = 2 * lmfc_cycles - 1
    /\ ~in_jsync

\* C39: two runs of a TX link whose sink words differ only in SEND-CGS
\* or in SEND-ILAS before the word that feeds the first SEND-DATA output
\* send the same words in SEND-DATA, and the scrambler's state is the
\* seed when that word is scrambled (the last cycle of SEND-ILAS).
C39_DataFromSeed ==
    /\ obs_dp.prev.state = "SEND-DATA" => obs_dp.out_a = obs_dp.out_b
    /\ (tx[0].state = "SEND-ILAS" /\ tx[0].ilas_counter = ilas_len - 1)
          => /\ dp.a.state = scrambler_reset_state
             /\ dp.b.state = scrambler_reset_state

C34_FramerFlags ==
    ("framer" \in obs_dp.seen)
        => LET dw_bytes == dp.dw_bits \div 8
               cpm == dp.K \div (dw_bytes \div dp.F)
               s == obs_dp.src
           IN  /\ DOMAIN s.frame_last = 0..(dw_bytes - 1)
               /\ \A i \in 0..(dw_bytes - 1) :
                     s.frame_last[i] = 1 <=> (i + 1) % dp.F = 0
               /\ (\E i \in 0..(dw_bytes - 1) : s.multiframe_last[i] # 0)
                     <=> obs_dp.src_age % cpm = cpm - 1
               /\ \A i \in 0..(dw_bytes - 2) : s.multiframe_last[i] = 0
               /\ s.data = obs_dp.src_sink

\* C34 witness: a framer with one clock per multiframe (F = 2, two frames
\* per clock, K = 2) raises multiframe_last in its second cycle, and the
\* word it passes is not zero.
C34_Witness ==
    /\ "framer" \in obs_dp.seen
    /\ dp.dw_bits = 32
    /\ dp.F = 2
    /\ dp.K = 2
    /\ obs_dp.src_age = 1
    /\ obs_dp.src.multiframe_last[3] = 1
    /\ obs_dp.src.data[3] = 1

\* C35: constructing a Framer fails exactly when (data_width/8)/F is not
\* a positive integer or K is not a multiple of frames_per_clock;
\* constructing a Deframer fails under the same conditions, and a
\* Deframer that is constructed passes data through unchanged.
C35_Validation ==
    LET whole == dp.dw_bits % (8 * dp.F) = 0
        bad == ~whole \/ dp.K % (dp.dw_bits \div (8 * dp.F)) # 0
    IN  /\ dp.stage = "built"
            => /\ dp.fr.err # "none" <=> bad
               /\ dp.de.err # "none" <=> bad
        /\ ("deframer" \in obs_dp.seen)
            => obs_dp.de_src.data = obs_dp.de_sink

\* The four octets, with their control flags, from slot i (0-based) of
\* the word `before` followed by the word `now`.
C36_Slice(i, before, now) ==
    LET d == before.data \o now.data
        c == before.ctrl \o now.ctrl
    IN  Word([j \in Octets |-> d[i + j]], [j \in Octets |-> c[i + j]])

\* The slots (0-based) of a word that carry the R control character.
C36_Slots(w) ==
    {i \in 0..(octets_per_clock - 1) :
        w.ctrl[i + 1] = 1 /\ w.data[i + 1] = control_characters.R}

\* C36 as stated: if the word of cycle t carries the R control character
\* in slot i, the output of cycle t+1 is the four octets from slot i of
\* the word of cycle t followed by the word of cycle t+1 (so it has that R
\* at octet 0, flag set); the alignment stays until another R control
\* character is seen, and an octet R without its flag never changes it.
C36_AlignOnAnyR ==
    obs_dp.cycles = 2
        => /\ \A i \in C36_Slots(obs_dp.before) :
                 obs_dp.source = C36_Slice(i, obs_dp.before, in_data)
           /\ obs_dp.source = C36_Slice(obs_dp.used, obs_dp.before, in_data)
           /\ C36_Slots(in_data) = {} => dp.alignment = obs_dp.used

\* C36 amended: the slot is the highest one of the word of cycle t that
\* carries the R control character.
C36_AlignOnHighestR ==
    obs_dp.cycles = 2
        => /\ \A i \in C36_Slots(obs_dp.before) :
                 (\A k \in C36_Slots(obs_dp.before) : k <= i)
                     => /\ obs_dp.source
                             = C36_Slice(i, obs_dp.before, in_data)
                        /\ obs_dp.source.data[1] = control_characters.R
                        /\ obs_dp.source.ctrl[1] = 1
           /\ obs_dp.source = C36_Slice(obs_dp.used, obs_dp.before, in_data)
           /\ C36_Slots(in_data) = {} => dp.alignment = obs_dp.used

\* C36 witness: the word before the last carried R control characters in
\* slots 1 and 3 and the output starts at slot 3; the last word carries
\* an R that is data, and the alignment stays.
C36_Witness ==
    /\ obs_dp.cycles = 2
    /\ C36_Slots(obs_dp.before) = {1, 3}
    /\ obs_dp.used = 3
    /\ obs_dp.source.data[1] = control_characters.R
    /\ obs_dp.source.ctrl[1] = 1
    /\ \E j \in Octets :
          in_data.data[j] = control_characters.R /\ in_data.ctrl[j] = 0
    /\ dp.alignment = 3

\* C37: the start checker's valid is true in a cycle exactly when octet 0
\* of its sink word is R with control flag 0 set and no other control
\* flag of the word is set, whatever octets 1..3 are and whatever the
\* words of earlier cycles were.
C37_StartValid ==
    obs_dp.cycles > 0
        => (obs_dp.start
              <=> /\ obs_dp.source.data[1] = control_characters.R
                  /\ obs_dp.source.ctrl[1] = 1
                  /\ \A j \in 2..octets_per_clock : obs_dp.source.ctrl[j] = 0)

\* C37 witness: valid on a word whose octet 1 is R as data and whose
\* octets 2 and 3 are plain data, after a word that carried two R control
\* characters.
C37_Witness ==
    /\ obs_dp.cycles = 2
    /\ obs_dp.start
    /\ obs_dp.source.data[2] = control_characters.R
    /\ obs_dp.source.data[3] # 0
    /\ Cardinality(C36_Slots(obs_dp.before)) = 2

\* C40: with a constant load and the loads spaced by whole multiples of
\* lmfc_cycles cycles, every load after the first writes the value the
\* increment would have written, and from the first load on zero is
\* asserted every lmfc_cycles cycles.
C40_ResyncIdempotent ==
    (lmfc.built /\ obs_lmfc.aligned)
        => /\ obs_lmfc.reload
                => lmfc.count
                     = (obs_lmfc.prev.count + 1) % Pow2(obs_lmfc.prev.bits)
           /\ obs_lmfc.gap \in {0, lmfc.cycles}
           /\ obs_lmfc.seenz => obs_lmfc.zs < lmfc.cycles

=============================================================================
